---------------------------- MODULE Spec2Model ----------------------------
(***************************************************************************)
(* A model of mda-rs: the MIME normalization pipeline (src/normalize.rs,   *)
(* src/decode.rs), the Email object (src/lib.rs), external processing      *)
(* (src/processing.rs) and maildir delivery (src/deliver.rs).              *)
(*                                                                         *)
(* Bytes are the integers 0..255, byte strings are sequences of bytes.     *)
(* Option<T> is a sequence of length 0 (None) or 1 (Some(x)).              *)
(***************************************************************************)
EXTENDS Integers, Sequences, FiniteSets, TLC

\* ------------------------------------------------------------------------
\* Byte values the code names.
\* ------------------------------------------------------------------------
LF == 10
CR == 13
SP == 32
HT == 9
DASH == 45
EQ == 61
QUOTE == 34
SEMI == 59
COLON == 58
QMARK == 63
USCORE == 95

None == <<>>
Some(x) == <<x>>

Min(S) == CHOOSE x \in S : \A y \in S : x <= y
Max(S) == CHOOSE x \in S : \A y \in S : x >= y

\* slice[i..] for a 0-based offset i.
From(s, i) == SubSeq(s, i + 1, Len(s))

\* <[u8]>::starts_with / ends_with
starts_with(s, p) == Len(p) <= Len(s) /\ SubSeq(s, 1, Len(p)) = p
ends_with(s, p) == Len(p) <= Len(s) /\ SubSeq(s, Len(s) - Len(p) + 1, Len(s)) = p

\* u8::to_ascii_lowercase, and its lifting to byte strings.  The regexes of
\* the parser are built case_insensitive(true); String::to_lowercase agrees
\* with it on ASCII.
lower(b) == IF b >= 65 /\ b <= 90 THEN b + 32 ELSE b
to_lowercase(s) == [i \in 1..Len(s) |-> lower(s[i])]

is_alnum(b) == (b >= 48 /\ b <= 57) \/ (b >= 65 /\ b <= 90) \/ (b >= 97 /\ b <= 122)
\* \s of the regex crate on bytes: HT, LF, VT, FF, CR, SP.
is_space(b) == b \in {9, 10, 11, 12, 13, 32}

\* ------------------------------------------------------------------------
\* src/decode.rs
\* ------------------------------------------------------------------------
PAD == 64
INV == 99

\* The 256-entry table BASE64_INDICES.
BASE64_INDICES(c) ==
    IF c >= 65 /\ c <= 90 THEN c - 65
    ELSE IF c >= 97 /\ c <= 122 THEN c - 71
    ELSE IF c >= 48 /\ c <= 57 THEN c + 4
    ELSE IF c = 43 THEN 62
    ELSE IF c = 47 THEN 63
    ELSE IF c = EQ THEN PAD
    ELSE INV

\* next_valid_base64_value: the value of the next base64 character at or
\* after 1-based position i, skipping invalid characters.  kind is "Some",
\* "Pad" or "None"; pos is the position after the character consumed.
RECURSIVE next_valid_base64_value(_, _)
next_valid_base64_value(input, i) ==
    IF i > Len(input) THEN [kind |-> "None", v |-> 0, pos |-> i]
    ELSE LET b == BASE64_INDICES(input[i]) IN
         IF b < PAD THEN [kind |-> "Some", v |-> b, pos |-> i + 1]
         ELSE IF b = PAD THEN [kind |-> "Pad", v |-> 0, pos |-> i + 1]
         ELSE next_valid_base64_value(input, i + 1)

RECURSIVE base64_paddings(_, _, _)
\* The loop after the first pad character failing on every byte that is
\* not '='.  C21 rules this variant out.
base64_paddings_strict(input, i, found) ==
    IF i > Len(input) THEN [ok |-> TRUE, found |-> found]
    ELSE IF input[i] = EQ THEN base64_paddings(input, i + 1, found + 1)
    ELSE [ok |-> FALSE, found |-> found]

\* The loop over the bytes that follow the first pad character: counts the
\* '=' and fails on an alphabet symbol.
base64_paddings(input, i, found) ==
    IF i > Len(input) THEN [ok |-> TRUE, found |-> found]
    ELSE IF input[i] = EQ THEN base64_paddings(input, i + 1, found + 1)
    ELSE IF BASE64_INDICES(input[i]) < PAD THEN [ok |-> FALSE, found |-> found]
    ELSE base64_paddings(input, i + 1, found)

base64_tail(input, i, expected_paddings, output) ==
    LET r == base64_paddings(input, i, 0) IN
    [ok |-> r.ok /\ r.found = expected_paddings, out |-> output]

\* The quartet loop of base64_decode_into_buf.  The result is the Result
\* (ok) and the output buffer as the call leaves it: on Err the bytes pushed
\* before the error are still in it.
RECURSIVE base64_quartets(_, _, _)
\* The fourth symbol r3 of a quartet, after the symbols r0, r1 and r2.
base64_fourth(input, out2, r2, r3) ==
    IF r3.kind = "Pad" THEN base64_tail(input, r3.pos, 0, out2)
    ELSE IF r3.kind = "None" THEN [ok |-> FALSE, out |-> out2]
    ELSE base64_quartets(input, r3.pos, Append(out2, ((r2.v * 64) % 256) + r3.v))

\* The second byte of a triple taken with the shift of the first.  C19 rules
\* this variant out.
base64_third_shifted(input, out1, r1, r2) ==
    IF r2.kind = "Pad" THEN base64_tail(input, r2.pos, 1, out1)
    ELSE IF r2.kind = "None" THEN [ok |-> FALSE, out |-> out1]
    ELSE base64_fourth(input, Append(out1, ((r1.v * 16) % 256) + (r2.v \div 16)), r2,
                       next_valid_base64_value(input, r2.pos))

base64_third(input, out1, r1, r2) ==
    IF r2.kind = "Pad" THEN base64_tail(input, r2.pos, 1, out1)
    ELSE IF r2.kind = "None" THEN [ok |-> FALSE, out |-> out1]
    ELSE base64_fourth(input, Append(out1, ((r1.v * 16) % 256) + (r2.v \div 4)), r2,
                       next_valid_base64_value(input, r2.pos))

base64_second(input, output, r0, r1) ==
    IF r1.kind # "Some" THEN [ok |-> FALSE, out |-> output]
    ELSE base64_third(input, Append(output, ((r0.v * 4) % 256) + (r1.v \div 16)), r1,
                      next_valid_base64_value(input, r1.pos))

base64_first(input, output, r0) ==
    IF r0.kind = "Pad" THEN [ok |-> FALSE, out |-> output]
    ELSE IF r0.kind = "None" THEN [ok |-> TRUE, out |-> output]
    ELSE base64_second(input, output, r0, next_valid_base64_value(input, r0.pos))

base64_quartets(input, i, output) ==
    base64_first(input, output, next_valid_base64_value(input, i))

\* The decoder starting from a cleared buffer.  C20 rules this variant out.
base64_decode_into_buf_cleared(input, output) == base64_quartets(input, 1, <<>>)

base64_decode_into_buf(input, output) == base64_quartets(input, 1, output)

\* The decoder reading hex digits of the lower case only.  C22 rules this
\* variant out.
hexdigit_to_num_lower(a) ==
    IF a >= 48 /\ a <= 57 THEN Some(a - 48)
    ELSE IF a >= 97 /\ a <= 102 THEN Some(a - 97 + 10)
    ELSE None

\* hexdigit_to_num: Some(value) or None.
hexdigit_to_num(a) ==
    IF a >= 48 /\ a <= 57 THEN Some(a - 48)
    ELSE IF lower(a) >= 97 /\ lower(a) <= 102 THEN Some(lower(a) - 97 + 10)
    ELSE None

\* qp_decode_into_buf, from 1-based position i.  It never fails.
RECURSIVE qp_decode_from(_, _, _)
qp_decode_from(input, i, output) ==
    IF i > Len(input) THEN output
    ELSE IF input[i] # EQ THEN qp_decode_from(input, i + 1, Append(output, input[i]))
    ELSE IF i + 1 > Len(input) THEN Append(output, EQ)
    ELSE
    LET first == input[i + 1]
        has2 == i + 2 <= Len(input)
    IN
    IF first = CR /\ has2 /\ input[i + 2] = LF THEN qp_decode_from(input, i + 3, output)
    ELSE IF first = LF THEN qp_decode_from(input, i + 2, output)
    ELSE IF first # CR /\ hexdigit_to_num(first) # None /\ has2
            /\ hexdigit_to_num(input[i + 2]) # None
         THEN qp_decode_from(input, i + 3,
                  Append(output, hexdigit_to_num(first)[1] * 16 + hexdigit_to_num(input[i + 2])[1]))
    ELSE qp_decode_from(input, i + 2, output \o <<EQ, first>>)

qp_decode_into_buf(input, output) == [ok |-> TRUE, out |-> qp_decode_from(input, 1, output)]

\* ------------------------------------------------------------------------
\* src/normalize.rs: the regexes of EmailParser::new
\* ------------------------------------------------------------------------
\* The regexes are regex::bytes ones in Unicode mode and their captures go
\* through str::from_utf8(..).unwrap(): the classes below are those classes
\* on ASCII, and every header line of the inputs of this model is ASCII.
Byte == 0..255
Alnum == {b \in Byte : is_alnum(b)}
Space == {b \in Byte : is_space(b)}
\* [[:alnum:]-]
EncodingChars == Alnum \cup {DASH}
\* [[:alnum:]'_,/:=\(\)\+\-\.\?]
BoundaryChars == Alnum \cup {39, USCORE, 44, 47, COLON, EQ, 40, 41, 43, DASH, 46, QMARK}
\* [[:alnum:]_:\-\.]
CharsetChars == Alnum \cup {USCORE, COLON, DASH, 46}
\* [^;]
NotSemi == Byte \ {SEMI}

\* "content-transfer-encoding:"
CTE_NAME == <<99, 111, 110, 116, 101, 110, 116, 45, 116, 114, 97, 110, 115, 102, 101, 114,
              45, 101, 110, 99, 111, 100, 105, 110, 103, 58>>
\* "content-type:"
CT_NAME == <<99, 111, 110, 116, 101, 110, 116, 45, 116, 121, 112, 101, 58>>
\* "multipart/"
MULTIPART == <<109, 117, 108, 116, 105, 112, 97, 114, 116, 47>>
\* "boundary"
BOUNDARY == <<98, 111, 117, 110, 100, 97, 114, 121>>
\* "charset"
CHARSET == <<99, 104, 97, 114, 115, 101, 116>>

\* The end (exclusive, 1-based) of the longest run of bytes of S that starts
\* at position i: what a greedy S* consumes from i.
RunEnd(s, i, S) ==
    IF i > Len(s) THEN i
    ELSE Min({j \in i..(Len(s) + 1) : j = Len(s) + 1 \/ s[j] \notin S})

\* Whether the literal lit (lower case) occurs in s at position i, ignoring case.
LitAt(s, i, lit) ==
    i >= 1 /\ i + Len(lit) - 1 <= Len(s) /\ to_lowercase(SubSeq(s, i, i + Len(lit) - 1)) = lit

\* content_encoding_regex, Content-Transfer-Encoding:\s*([[:alnum:]-]+),
\* unanchored and case-insensitive: capture group 1 of the leftmost match.
encoding_token(field, i) == RunEnd(field, i + Len(CTE_NAME), Space)
encoding_end(field, tok) == RunEnd(field, tok, EncodingChars)
encoding_capture(field, tok) == Some(SubSeq(field, tok, encoding_end(field, tok) - 1))
encoding_leftmost(field, hits) ==
    IF hits = {} THEN None ELSE encoding_capture(field, encoding_token(field, Min(hits)))

content_encoding_regex(field) ==
    encoding_leftmost(field,
        {i \in 1..Len(field) :
            LitAt(field, i, CTE_NAME)
            /\ encoding_end(field, encoding_token(field, i)) > encoding_token(field, i)})

\* Where "\s*=\s*"?(class+)" matches from position e: the start of class+,
\* or 0 when it does not match.
ParamClassAt(field, q, class) == IF q <= Len(field) /\ field[q] \in class THEN q ELSE 0
ParamSkipQuote(field, v) == IF v <= Len(field) /\ field[v] = QUOTE THEN v + 1 ELSE v
ParamAfterEq(field, eq, class) ==
    IF eq > Len(field) \/ field[eq] # EQ THEN 0
    ELSE ParamClassAt(field, ParamSkipQuote(field, RunEnd(field, eq + 1, Space)), class)

ParamValueStart(field, e, class) == ParamAfterEq(field, RunEnd(field, e, Space), class)

\* boundary_regex,
\* ^Content-Type:\s*multipart/.*boundary\s*=\s*"?([[:alnum:]'_,/:=\(\)\+\-\.\?]+)"?
\* The greedy .* (which does not cross a line feed) takes the last
\* "boundary" from which the rest matches.
boundary_capture(field, q) == Some(SubSeq(field, q, RunEnd(field, q, BoundaryChars) - 1))
boundary_last(field, hits) ==
    IF hits = {} THEN None
    ELSE boundary_capture(field,
             ParamValueStart(field, Max(hits) + Len(BOUNDARY), BoundaryChars))
boundary_hits(field, m) ==
    {k \in m..Len(field) :
        /\ LitAt(field, k, BOUNDARY)
        /\ \A j \in m..(k - 1) : field[j] # LF
        /\ ParamValueStart(field, k + Len(BOUNDARY), BoundaryChars) # 0}
boundary_multipart(field, a) ==
    IF ~(LitAt(field, 1, CT_NAME) /\ LitAt(field, a, MULTIPART)) THEN None
    ELSE boundary_last(field, boundary_hits(field, a + Len(MULTIPART)))

boundary_regex(field) == boundary_multipart(field, RunEnd(field, Len(CT_NAME) + 1, Space))

\* content_type_regex,
\* ^Content-Type:\s*([^;]+)\s*(?:;\s*charset\s*=\s*"?([[:alnum:]_:\-\.]+))?"?
\* The result is None or Some of the captures [type, charset], charset
\* being an Option.  [^;]+ is greedy and also takes line terminators;
\* when nothing but white space precedes the first ';' the \s* gives its
\* last byte back to it.
content_type_charset(field, q) ==
    IF q = 0 THEN None ELSE Some(SubSeq(field, q, RunEnd(field, q, CharsetChars) - 1))
content_type_param(field, g, c) ==
    IF g <= Len(field) /\ LitAt(field, c, CHARSET)
    THEN ParamValueStart(field, c + Len(CHARSET), CharsetChars)
    ELSE 0
content_type_captures(field, a, g) ==
    IF ~LitAt(field, 1, CT_NAME) \/ a < Len(CT_NAME) + 1 THEN None
    ELSE Some([type |-> SubSeq(field, a, g - 1),
               charset |-> content_type_charset(field,
                               content_type_param(field, g, RunEnd(field, g + 1, Space)))])
content_type_group(field, a0, g) ==
    content_type_captures(field, IF g > a0 THEN a0 ELSE a0 - 1, g)
content_type_space(field, a0) == content_type_group(field, a0, RunEnd(field, a0, NotSemi))

content_type_regex(field) == content_type_space(field, RunEnd(field, Len(CT_NAME) + 1, Space))

\* ------------------------------------------------------------------------
\* src/normalize.rs: Part, SliceLines, EmailParser
\* ------------------------------------------------------------------------
\* Part::new()
PartNew == [encoding |-> None, content_type |-> None, charset |-> None,
            subpart_boundary |-> None]

\* memchr(b'\n', s): Some(0-based index of the first line feed) or None.
memchr(b, s) ==
    LET hits == {i \in 1..Len(s) : s[i] = b}
    IN IF hits = {} THEN None ELSE Some(Min(hits) - 1)

\* SliceLines::next for a buffer and the field last: the line (None at the
\* end of the buffer).  The new value of last is last + Len(line).
SliceLinesNext(buf, last) ==
    LET rest == From(buf, last)
        m == memchr(LF, rest)
    IN IF m # None THEN Some(SubSeq(rest, 1, m[1] + 1))
       ELSE IF rest = <<>> THEN None
       ELSE Some(rest)

\* vec_trim_end_newline and slice_trim_end_newline.
RECURSIVE slice_trim_end_newline(_)
slice_trim_end_newline(line) ==
    IF line # <<>> /\ line[Len(line)] \in {LF, CR}
    THEN slice_trim_end_newline(SubSeq(line, 1, Len(line) - 1))
    ELSE line

\* vec_trim_end_newline leaving the line as it is.  C23 rules this variant out.
vec_trim_end_newline_kept(line) == line

vec_trim_end_newline(line) == slice_trim_end_newline(line)

\* is_boundary_line taking the line without its newline to be "--boundary"
\* or "--boundary--" and nothing more.  C29 rules this variant out.
is_boundary_line_exact(line, boundary) ==
    /\ boundary # <<>>
    /\ slice_trim_end_newline(line) \in {<<DASH, DASH>> \o boundary,
                                         <<DASH, DASH>> \o boundary \o <<DASH, DASH>>}

is_boundary_line(line, boundary) ==
    /\ starts_with(line, <<DASH, DASH>>)
    /\ boundary # <<>>
    /\ starts_with(From(line, 2), boundary)

\* The parser state p is a record [last, part_stack, in_header,
\* active_boundary]; last is the field of SliceLines.
ParserNew == [last |-> 0, part_stack |-> <<PartNew>>, in_header |-> TRUE,
              active_boundary |-> <<>>]

\* part_stack.last(): an Option.
StackLast(stack) == IF stack = <<>> THEN None ELSE Some(stack[Len(stack)])

active_content_type(p) ==
    IF p.part_stack = <<>> THEN None ELSE p.part_stack[Len(p.part_stack)].content_type
active_encoding(p) ==
    IF p.part_stack = <<>> THEN None ELSE p.part_stack[Len(p.part_stack)].encoding
active_charset(p) ==
    IF p.part_stack = <<>> THEN None ELSE p.part_stack[Len(p.part_stack)].charset

\* begin_part.  The caller checks that the stack is not empty: on an empty
\* stack part_stack.last().unwrap() panics.
begin_part(p) ==
    LET n == Len(p.part_stack)
        part == p.part_stack[n]
    IN IF part.subpart_boundary # None /\ part.subpart_boundary[1] = p.active_boundary
       THEN [p EXCEPT !.part_stack = Append(@, PartNew)]
       ELSE [p EXCEPT !.part_stack[n] = PartNew]

\* The loop of end_part over part_stack.iter().rev(): every part that has a
\* subpart boundary assigns it, from the top (index Len) down to the root
\* (index 1), and the loop has no break.
RECURSIVE end_part_scan(_, _, _)
end_part_scan(stack, i, active) ==
    IF i = 0 THEN active
    ELSE end_part_scan(stack, i - 1,
             IF stack[i].subpart_boundary # None THEN stack[i].subpart_boundary[1] ELSE active)

end_part(p) ==
    LET n == Len(p.part_stack)
        popped == IF n = 0 THEN <<>> ELSE SubSeq(p.part_stack, 1, n - 1)
        stack == IF popped = <<>> THEN popped
                 ELSE [popped EXCEPT ![n - 1].subpart_boundary = None]
    IN [p EXCEPT !.part_stack = stack,
                 !.active_boundary = end_part_scan(stack, Len(stack), p.active_boundary)]

\* update_active_part_from_header_field, on a non-empty stack (the caller
\* checks it: part_stack.last_mut().unwrap() panics on an empty one).
update_part(p, n, enc, bnd, ct) ==
    IF enc # None
    THEN [p EXCEPT !.part_stack[n].encoding = Some(to_lowercase(enc[1]))]
    ELSE IF bnd # None
    THEN [p EXCEPT !.part_stack[n].subpart_boundary = bnd,
                   !.active_boundary = bnd[1]]
    ELSE IF ct # None
    THEN [p EXCEPT !.part_stack[n].content_type = Some(to_lowercase(ct[1].type)),
                   !.part_stack[n].charset =
                       IF ct[1].charset # None THEN Some(to_lowercase(ct[1].charset[1]))
                       ELSE @]
    ELSE p

update_active_part_from_header_field(p, field) ==
    update_part(p, Len(p.part_stack), content_encoding_regex(field), boundary_regex(field),
                content_type_regex(field))

\* Elements.  The attributes of a HeaderField or Verbatim element are None.
HeaderField(data) == [kind |-> "HeaderField", data |-> data, encoding |-> None,
                      content_type |-> None, charset |-> None]
Verbatim(data) == [kind |-> "Verbatim", data |-> data, encoding |-> None,
                   content_type |-> None, charset |-> None]
BodyElement(data, p) == [kind |-> "Body", data |-> data, encoding |-> active_encoding(p),
                         content_type |-> active_content_type(p),
                         charset |-> active_charset(p)]

\* The result of the loop of EmailParser::next: the parser state, the
\* inprogress bytes, the element recognised (an Option) and, when the call
\* panicked, the place of the panic ("" otherwise).
LoopResult(p, inprogress, element, panic) ==
    [p |-> p, inprogress |-> inprogress, element |-> element, panic |-> panic]

\* The loop going back to the header phase after a closing boundary line as
\* well.  C28 rules this variant out.
boundary_line_step_header(p, line, inprogress) ==
    IF ends_with(slice_trim_end_newline(line), <<DASH, DASH>>)
    THEN LoopResult([end_part(p) EXCEPT !.in_header = TRUE], inprogress,
                    Some(Verbatim(line)), "")
    ELSE IF p.part_stack = <<>>
    THEN LoopResult(p, inprogress, None, "begin_part")
    ELSE LoopResult([begin_part(p) EXCEPT !.in_header = TRUE], inprogress,
                    Some(Verbatim(line)), "")

\* What the loop does with a boundary line.
boundary_line_step(p, line, inprogress) ==
    IF ends_with(slice_trim_end_newline(line), <<DASH, DASH>>)
    THEN LoopResult(end_part(p), inprogress, Some(Verbatim(line)), "")
    ELSE IF p.part_stack = <<>>
    THEN LoopResult(p, inprogress, None, "begin_part")
    ELSE LoopResult([begin_part(p) EXCEPT !.in_header = TRUE], inprogress,
                    Some(Verbatim(line)), "")

\* loop { ... } of EmailParser::next, lines 240-297.
RECURSIVE parser_loop(_, _, _)
\* A header line that never breaks before the next field or the blank line.
\* C33 rules this variant out.
header_line_greedy(buf, p1, inprogress, peek) == parser_loop(buf, p1, inprogress)

\* A header line, inprogress taken: break when the next line is not a
\* continuation line.
header_line(buf, p1, inprogress, peek) ==
    IF peek # None /\ peek[1][1] \notin {SP, HT}
    THEN LoopResult(p1, inprogress, None, "")
    ELSE parser_loop(buf, p1, inprogress)

\* A body line, inprogress extended: break when the next line is a
\* boundary line.
body_line(buf, p1, inprogress, peek) ==
    IF peek # None /\ is_boundary_line(peek[1], p1.active_boundary)
    THEN LoopResult(p1, inprogress, None, "")
    ELSE parser_loop(buf, p1, inprogress)

\* One iteration on the line: p1 is the parser after lines.next() and peek
\* is lines.peek().
loop_line(buf, p1, line, inprogress, peek) ==
    IF p1.in_header
    THEN IF line[1] \in {LF, CR}
         THEN LoopResult([p1 EXCEPT !.in_header = FALSE], inprogress,
                         Some(Verbatim(line)), "")
         ELSE header_line(buf, p1,
                          IF line[1] \in {SP, HT}
                          THEN vec_trim_end_newline(inprogress) \o line
                          ELSE line,
                          peek)
    ELSE IF is_boundary_line(line, p1.active_boundary)
    THEN boundary_line_step(p1, line, inprogress)
    ELSE body_line(buf, p1, inprogress \o line, peek)

loop_next(buf, p, inprogress, l) ==
    IF l = None THEN LoopResult(p, inprogress, None, "")
    ELSE loop_line(buf, [p EXCEPT !.last = @ + Len(l[1])], l[1], inprogress,
                   SliceLinesNext(buf, p.last + Len(l[1])))

parser_loop(buf, p, inprogress) == loop_next(buf, p, inprogress, SliceLinesNext(buf, p.last))

\* EmailParser::next: [p, element, panic].  element is None at the end of
\* the input.
parser_emit(r) ==
    IF r.panic # "" THEN [p |-> r.p, element |-> None, panic |-> r.panic]
    ELSE IF r.inprogress = <<>> THEN [p |-> r.p, element |-> r.element, panic |-> ""]
    ELSE IF r.element # None THEN [p |-> r.p, element |-> None, panic |-> "assert"]
    ELSE IF ~r.p.in_header
    THEN [p |-> r.p, element |-> Some(BodyElement(r.inprogress, r.p)), panic |-> ""]
    ELSE IF r.p.part_stack = <<>>
    THEN [p |-> r.p, element |-> None, panic |-> "update_active_part_from_header_field"]
    ELSE [p |-> update_active_part_from_header_field(r.p, r.inprogress),
          element |-> Some(HeaderField(r.inprogress)), panic |-> ""]

EmailParserNext(buf, p) == parser_emit(parser_loop(buf, p, <<>>))

\* ------------------------------------------------------------------------
\* src/normalize.rs: charset conversion (Charset::for_label and decode of
\* the charset crate, as decode_text_data_to_buf uses them)
\* ------------------------------------------------------------------------
\* "base64", "quoted-printable", "8bit", "binary"
ENC_BASE64 == <<98, 97, 115, 101, 54, 52>>
ENC_QP == <<113, 117, 111, 116, 101, 100, 45, 112, 114, 105, 110, 116, 97, 98, 108, 101>>
ENC_8BIT == <<56, 98, 105, 116>>
ENC_BINARY == <<98, 105, 110, 97, 114, 121>>
\* "text/"
TEXT_SLASH == <<116, 101, 120, 116, 47>>
\* "us-ascii", "utf-8"
US_ASCII == <<117, 115, 45, 97, 115, 99, 105, 105>>
UTF_8 == <<117, 116, 102, 45, 56>>
\* "iso-8859-1"
ISO_8859_1 == <<105, 115, 111, 45, 56, 56, 53, 57, 45, 49>>

\* U+FFFD in UTF-8.
REPLACEMENT == <<239, 191, 189>>

\* The UTF-8 encoding of a code point below 0x10000.
utf8_encode(cp) ==
    IF cp < 128 THEN <<cp>>
    ELSE IF cp < 2048 THEN <<192 + (cp \div 64), 128 + (cp % 64)>>
    ELSE <<224 + (cp \div 4096), 128 + ((cp \div 64) % 64), 128 + (cp % 64)>>

\* The code points of the bytes 0x80..0x9F in windows-1252.
WINDOWS_1252_HIGH ==
    <<8364, 129, 8218, 402, 8222, 8230, 8224, 8225, 710, 8240, 352, 8249, 338, 141, 381, 143,
      144, 8216, 8217, 8220, 8221, 8226, 8211, 8212, 732, 8482, 353, 8250, 339, 157, 382, 376>>

RECURSIVE windows_1252_decode(_, _)
windows_1252_decode(s, i) ==
    IF i > Len(s) THEN <<>>
    ELSE LET b == s[i]
             cp == IF b >= 128 /\ b < 160 THEN WINDOWS_1252_HIGH[b - 127] ELSE b
         IN utf8_encode(cp) \o windows_1252_decode(s, i + 1)

\* UTF-8 to UTF-8 with replacement: every maximal invalid sequence becomes
\* U+FFFD.
RECURSIVE utf8_decode(_, _)
utf8_decode(s, i) ==
    IF i > Len(s) THEN <<>>
    ELSE
    LET b == s[i]
        need == IF b >= 194 /\ b <= 223 THEN 1
                ELSE IF b >= 224 /\ b <= 239 THEN 2
                ELSE IF b >= 240 /\ b <= 244 THEN 3
                ELSE 0
        lo(k) == IF k = 1 /\ b = 224 THEN 160 ELSE IF k = 1 /\ b = 240 THEN 144 ELSE 128
        hi(k) == IF k = 1 /\ b = 237 THEN 159 ELSE IF k = 1 /\ b = 244 THEN 143 ELSE 191
        good == Max({n \in 0..need :
                        \A k \in 1..n : i + k <= Len(s) /\ s[i + k] >= lo(k) /\ s[i + k] <= hi(k)})
    IN IF b < 128 THEN <<b>> \o utf8_decode(s, i + 1)
       ELSE IF need > 0 /\ good = need
       THEN SubSeq(s, i, i + need) \o utf8_decode(s, i + need + 1)
       ELSE REPLACEMENT \o utf8_decode(s, i + good + 1)

\* Charset::for_label(label) followed by decode(bytes): None for a label
\* that is not known, else Some(the UTF-8 bytes).  WHATWG maps us-ascii and
\* iso-8859-1 to windows-1252.  The labels of the other encodings of the
\* WHATWG table, and data that starts with a byte order mark, are outside
\* the inputs of this model.
charset_decode(label, bytes) ==
    IF label \in {US_ASCII, ISO_8859_1} THEN Some(windows_1252_decode(bytes, 1))
    ELSE IF label = UTF_8 THEN Some(utf8_decode(bytes, 1))
    ELSE None

\* ------------------------------------------------------------------------
\* src/normalize.rs: the normalizer
\* ------------------------------------------------------------------------
\* The match on the encoding in decode_text_data_to_buf, lines 346-351: the
\* Result and the buffer as the decoder leaves it.
transfer_decode(data, enc, out) ==
    IF enc = ENC_BASE64 THEN base64_decode_into_buf(data, out)
    ELSE IF enc = ENC_QP THEN qp_decode_into_buf(data, out)
    ELSE IF enc \in {ENC_8BIT, ENC_BINARY} THEN [ok |-> TRUE, out |-> out \o data]
    ELSE [ok |-> FALSE, out |-> out]

\* decode_text_data_to_buf(data, encoding, charset, out): the new out.
\* if should_convert_charset { ... }, lines 363-371; conv is the Option
\* charset_decode gives for out[initial_len..].
decode_convert(out, initial_len, should_convert_charset, conv) ==
    IF should_convert_charset /\ conv # None
    THEN SubSeq(out, 1, initial_len) \o conv[1]
    ELSE out

decode_charset(charset, initial_len, should_convert_charset, out) ==
    decode_convert(out, initial_len, should_convert_charset,
                   charset_decode(IF charset # None THEN charset[1] ELSE US_ASCII,
                                  From(out, initial_len)))

\* if out.len() == initial_len { out.extend(data); }, lines 359-361.
decode_extend(data, charset, initial_len, should_convert_charset, out) ==
    decode_charset(charset, initial_len, should_convert_charset,
                   IF Len(out) = initial_len THEN out \o data ELSE out)

\* if result.is_err() { out.resize(initial_len, 0); should_convert_charset = false; }
decode_result(data, charset, initial_len, result) ==
    decode_extend(data, charset, initial_len, result.ok,
                  IF result.ok THEN result.out ELSE SubSeq(result.out, 1, initial_len))

decode_text_data_to_buf(data, encoding, charset, out) ==
    decode_result(data, charset, Len(out),
                  IF encoding # None THEN transfer_decode(data, encoding[1], out)
                  ELSE [ok |-> TRUE, out |-> out])

\* maybe_contains_encoded_word
maybe_contains_encoded_word(data) ==
    \E i \in 1..Len(data) : data[i] = QMARK /\ i + 1 <= Len(data) /\ data[i + 1] = EQ

NotQ == Byte \ {QMARK}
\* [^? \t]
WordChars == Byte \ {QMARK, SP, HT}

\* A match of ENCODED_WORD_WSP_REGEX, \?([^?]+)\?=\s*=\?([^?]+)\?, that
\* starts at position i: None, or Some of [g1, g2, end] (end is the position
\* after the match).
wsp_match_at(s, i, r, w, r2) ==
    IF /\ i <= Len(s) /\ s[i] = QMARK
       /\ r > i + 1 /\ r + 1 <= Len(s) /\ s[r] = QMARK /\ s[r + 1] = EQ
       /\ w + 1 <= Len(s) /\ s[w] = EQ /\ s[w + 1] = QMARK
       /\ r2 > w + 2 /\ r2 <= Len(s) /\ s[r2] = QMARK
    THEN Some([g1 |-> SubSeq(s, i + 1, r - 1), g2 |-> SubSeq(s, w + 2, r2 - 1),
               end |-> r2 + 1])
    ELSE None
wsp_match_space(s, i, r, w) == wsp_match_at(s, i, r, w, RunEnd(s, w + 2, NotQ))
wsp_match_first(s, i, r) == wsp_match_space(s, i, r, RunEnd(s, r + 2, Space))

wsp_match(s, i) == wsp_match_first(s, i, RunEnd(s, i + 1, NotQ))

\* ENCODED_WORD_WSP_REGEX.replace_all(data, "?$1?==?$2?")
RECURSIVE wsp_replace_all(_, _)
wsp_replace(s, i, m) ==
    IF m = None THEN <<s[i]>> \o wsp_replace_all(s, i + 1)
    ELSE <<QMARK>> \o m[1].g1 \o <<QMARK, EQ, EQ, QMARK>> \o m[1].g2 \o <<QMARK>>
         \o wsp_replace_all(s, m[1].end)

wsp_replace_all(s, i) == IF i > Len(s) THEN <<>> ELSE wsp_replace(s, i, wsp_match(s, i))

\* A match of ENCODED_WORD_REGEX, =\?([^?]+)\?([^?]+)\?([^? \t]+)\?=, that
\* starts at position i: None, or Some of its captures and its end.
word_match_at(s, i, a, b, c) ==
    IF /\ i + 1 <= Len(s) /\ s[i] = EQ /\ s[i + 1] = QMARK
       /\ a > i + 2 /\ a <= Len(s)
       /\ b > a + 1 /\ b <= Len(s)
       /\ c > b + 1 /\ c + 1 <= Len(s) /\ s[c] = QMARK /\ s[c + 1] = EQ
    THEN Some([charset |-> SubSeq(s, i + 2, a - 1), encoding |-> SubSeq(s, a + 1, b - 1),
               data |-> SubSeq(s, b + 1, c - 1), end |-> c + 2])
    ELSE None
word_match_encoding(s, i, a, b) == word_match_at(s, i, a, b, RunEnd(s, b + 1, WordChars))
word_match_charset(s, i, a) == word_match_encoding(s, i, a, RunEnd(s, a + 1, NotQ))

word_match(s, i) == word_match_charset(s, i, RunEnd(s, i + 2, NotQ))

\* decode_encoded_word_from_captures
encoded_word_encoding(e) ==
    IF e \in {<<113>>, <<81>>} THEN ENC_QP
    ELSE IF e \in {<<98>>, <<66>>} THEN ENC_BASE64
    ELSE <<>>
encoded_word_data(encoding, bytes) ==
    IF encoding = ENC_QP
    THEN [k \in 1..Len(bytes) |-> IF bytes[k] = USCORE THEN SP ELSE bytes[k]]
    ELSE bytes
encoded_word_decode(encoding, charset, bytes) ==
    decode_text_data_to_buf(encoded_word_data(encoding, bytes), Some(encoding),
                            Some(charset), <<>>)

decode_encoded_word_from_captures(caps) ==
    encoded_word_decode(encoded_word_encoding(caps.encoding), to_lowercase(caps.charset),
                        caps.data)

\* ENCODED_WORD_REGEX.replace_all(data, decode_encoded_word_from_captures)
RECURSIVE word_replace_all(_, _)
word_replace(s, i, m) ==
    IF m = None THEN <<s[i]>> \o word_replace_all(s, i + 1)
    ELSE decode_encoded_word_from_captures(m[1]) \o word_replace_all(s, m[1].end)

word_replace_all(s, i) == IF i > Len(s) THEN <<>> ELSE word_replace(s, i, word_match(s, i))

\* The HeaderField arm decoding the encoded-words without the replacement
\* that removes the white space between them.  C26 rules this variant out.
normalize_header_field_spaced(data) ==
    IF maybe_contains_encoded_word(data)
    THEN word_replace_all(data, 1)
    ELSE data

\* The bytes the HeaderField arm of normalize_email appends.
normalize_header_field(data) ==
    IF maybe_contains_encoded_word(data)
    THEN word_replace_all(wsp_replace_all(data, 1), 1)
    ELSE data

\* str::trim on the lossily decoded field (ASCII white space).
RECURSIVE trim_start(_)
trim_start(s) == IF s # <<>> /\ is_space(s[1]) THEN trim_start(Tail(s)) ELSE s
RECURSIVE trim_end(_)
trim_end(s) ==
    IF s # <<>> /\ is_space(s[Len(s)]) THEN trim_end(SubSeq(s, 1, Len(s) - 1)) ELSE s
trim(s) == trim_end(trim_start(s))

\* The entry the HeaderField arm adds to the fields map, lines 448-453:
\* [name, value] of the trimmed field split at its first ':'.
field_split(field_str, colon) ==
    IF colon = None THEN [name |-> to_lowercase(field_str), value |-> <<>>]
    ELSE [name |-> to_lowercase(SubSeq(field_str, 1, colon[1])),
          value |-> From(field_str, colon[1] + 1)]
field_of_str(field_str) == field_split(field_str, memchr(COLON, field_str))

field_entry(appended) == field_of_str(trim(utf8_decode(appended, 1)))

\* fields_push putting a further value of a name before the earlier ones.
\* C24 rules this variant out.
fields_push_front(fields, e) ==
    IF e.name \in DOMAIN fields
    THEN [fields EXCEPT ![e.name] = <<e.value>> \o @]
    ELSE [n \in DOMAIN fields \cup {e.name} |->
             IF n = e.name THEN <<e.value>> ELSE fields[n]]

\* fields.entry(name).or_insert(Vec::new()).push(value)
fields_push(fields, e) ==
    IF e.name \in DOMAIN fields
    THEN [fields EXCEPT ![e.name] = Append(@, e.value)]
    ELSE [n \in DOMAIN fields \cup {e.name} |->
             IF n = e.name THEN <<e.value>> ELSE fields[n]]

\* The Body arm without its test of the content type: every body goes
\* through decode_text_data_to_buf.  C6 rules this variant out.
normalize_body_decoding(element, normalized) ==
    decode_text_data_to_buf(element.data, element.encoding, element.charset, normalized)

\* The Body arm of normalize_email, lines 455-469: the new normalized buffer.
normalize_body(element, normalized) ==
    IF element.content_type # None /\ ~starts_with(element.content_type[1], TEXT_SLASH)
    THEN normalized \o element.data
    ELSE decode_text_data_to_buf(element.data, element.encoding, element.charset, normalized)

\* One arm of the match in normalize_email: the new normalized buffer.
normalize_element(element, normalized) ==
    IF element.kind = "HeaderField" THEN normalized \o normalize_header_field(element.data)
    ELSE IF element.kind = "Body" THEN normalize_body(element, normalized)
    ELSE normalized \o element.data

\* find_empty_line looking for "\n\n" alone.  C8 rules this variant out.
find_empty_line_lf(data) ==
    LET hits == {i \in 1..(Len(data) - 1) : data[i] = LF /\ data[i + 1] = LF}
    IN IF hits = {} THEN None ELSE Some(Min(hits) - 1)

\* src/lib.rs: find_empty_line, Some(0-based index) or None.
find_empty_line(data) ==
    LET hits == {i \in 1..(Len(data) - 1) :
                    data[i] = LF /\ (data[i + 1] = LF \/ data[i + 1] = CR)}
    IN IF hits = {} THEN None ELSE Some(Min(hits) - 1)

\* ------------------------------------------------------------------------
\* The inputs of Email::from_vec
\* ------------------------------------------------------------------------
\* '\n'
L_BLANK == <<10>>
\* '\r\n'
L_CRLF == <<13, 10>>
\* 'Content-Type: multipart/x; boundary=A\n'
L_MULTI_A == <<67, 111, 110, 116, 101, 110, 116, 45, 84, 121, 112, 101, 58, 32, 109, 117, 108, 116, 105, 112, 97, 114, 116, 47, 120, 59, 32, 98, 111, 117, 110, 100, 97, 114, 121, 61, 65, 10>>
\* 'Content-Type: multipart/x; boundary=B\n'
L_MULTI_B == <<67, 111, 110, 116, 101, 110, 116, 45, 84, 121, 112, 101, 58, 32, 109, 117, 108, 116, 105, 112, 97, 114, 116, 47, 120, 59, 32, 98, 111, 117, 110, 100, 97, 114, 121, 61, 66, 10>>
\* 'Content-Type: multipart/x; boundary="C"\n'
L_MULTI_C == <<67, 111, 110, 116, 101, 110, 116, 45, 84, 121, 112, 101, 58, 32, 109, 117, 108, 116, 105, 112, 97, 114, 116, 47, 120, 59, 32, 98, 111, 117, 110, 100, 97, 114, 121, 61, 34, 67, 34, 10>>
\* '--A\n'
L_OPEN_A == <<45, 45, 65, 10>>
\* '--A--\n'
L_CLOSE_A == <<45, 45, 65, 45, 45, 10>>
\* '--B\n'
L_OPEN_B == <<45, 45, 66, 10>>
\* '--B--\n'
L_CLOSE_B == <<45, 45, 66, 45, 45, 10>>
\* '--C\n'
L_OPEN_C == <<45, 45, 67, 10>>
\* '--C--\r\n'
L_CLOSE_C == <<45, 45, 67, 45, 45, 13, 10>>
\* '--Aj\n'
L_FAKE_A == <<45, 45, 65, 106, 10>>
\* 'Content-Transfer-Encoding: base64\n'
L_CTE_BASE64 == <<67, 111, 110, 116, 101, 110, 116, 45, 84, 114, 97, 110, 115, 102, 101, 114, 45, 69, 110, 99, 111, 100, 105, 110, 103, 58, 32, 98, 97, 115, 101, 54, 52, 10>>
\* 'content-transfer-encoding: Quoted-Printable\n'
L_CTE_QP == <<99, 111, 110, 116, 101, 110, 116, 45, 116, 114, 97, 110, 115, 102, 101, 114, 45, 101, 110, 99, 111, 100, 105, 110, 103, 58, 32, 81, 117, 111, 116, 101, 100, 45, 80, 114, 105, 110, 116, 97, 98, 108, 101, 10>>
\* 'Content-Transfer-Encoding: 8bit\n'
L_CTE_8BIT == <<67, 111, 110, 116, 101, 110, 116, 45, 84, 114, 97, 110, 115, 102, 101, 114, 45, 69, 110, 99, 111, 100, 105, 110, 103, 58, 32, 56, 98, 105, 116, 10>>
\* 'Content-Transfer-Encoding: 7bit\n'
L_CTE_7BIT == <<67, 111, 110, 116, 101, 110, 116, 45, 84, 114, 97, 110, 115, 102, 101, 114, 45, 69, 110, 99, 111, 100, 105, 110, 103, 58, 32, 55, 98, 105, 116, 10>>
\* 'Content-Type: text/plain; charset="utf-8"\n'
L_CT_TEXT_UTF8 == <<67, 111, 110, 116, 101, 110, 116, 45, 84, 121, 112, 101, 58, 32, 116, 101, 120, 116, 47, 112, 108, 97, 105, 110, 59, 32, 99, 104, 97, 114, 115, 101, 116, 61, 34, 117, 116, 102, 45, 56, 34, 10>>
\* 'Content-Type: text/plain\n'
L_CT_TEXT == <<67, 111, 110, 116, 101, 110, 116, 45, 84, 121, 112, 101, 58, 32, 116, 101, 120, 116, 47, 112, 108, 97, 105, 110, 10>>
\* 'Content-Type: image/png;\n'
L_CT_IMAGE == <<67, 111, 110, 116, 101, 110, 116, 45, 84, 121, 112, 101, 58, 32, 105, 109, 97, 103, 101, 47, 112, 110, 103, 59, 10>>
\* 'To: x\n'
L_TO == <<84, 111, 58, 32, 120, 10>>
\* 'To: x,\r\n'
L_TO_CRLF == <<84, 111, 58, 32, 120, 44, 13, 10>>
\* ' y\n'
L_FOLD == <<32, 121, 10>>
\* 'To: z'
L_NO_EOL == <<84, 111, 58, 32, 122>>
\* 'YWJj\n'
L_B64_ABC == <<89, 87, 74, 106, 10>>
\* 'YQo=\n'
L_B64_A_LF == <<89, 81, 111, 61, 10>>
\* 'YWJjZA====\n'
L_B64_BAD == <<89, 87, 74, 106, 90, 65, 61, 61, 61, 61, 10>>
\* 'a=62\n'
L_QP_AB == <<97, 61, 54, 50, 10>>
\* '=\n'
L_QP_SOFT == <<61, 10>>
\* '=E9\n'
L_QP_E9 == <<61, 69, 57, 10>>
\* '\xe9\n'
L_HIGH == <<233, 10>>
\* 'hi\n'
L_TEXT == <<104, 105, 10>>

\* The lines the short inputs are drawn from.
Vocabulary == {L_BLANK, L_MULTI_A, L_OPEN_A, L_CLOSE_A, L_CTE_BASE64, L_CT_IMAGE,
               L_B64_ABC, L_FOLD, L_NO_EOL}

\* The number of lines of the short inputs.
MaxLines == 3

RECURSIVE Concat(_)
Concat(ls) == IF ls = <<>> THEN <<>> ELSE Head(ls) \o Concat(Tail(ls))

LineSeqs(n) == UNION {[1..k -> Vocabulary] : k \in 0..n}

ShortInputs == {Concat(ls) : ls \in LineSeqs(MaxLines)}

\* tests/test_boundaries.rs, TEST_EMAIL_BOUNDARY_BEGIN_AFTER_END
IN_BEGIN_AFTER_END == Concat(<<L_TO, L_MULTI_A, L_BLANK, L_CLOSE_A, L_BLANK, L_OPEN_A>>)
\* tests/test_boundaries.rs, TEST_EMAIL_FAKE_BOUNDARY
IN_FAKE_BOUNDARY ==
    Concat(<<L_TO, L_MULTI_A, L_BLANK, L_OPEN_A, L_CTE_BASE64, L_BLANK, L_FAKE_A, L_BLANK,
             L_OPEN_A>>)
\* tests/test_encoding.rs, TEST_EMAIL_MULTIPART: a multipart with a nested
\* multipart and a sibling part after it, base64 text and an image.
IN_MULTIPART ==
    Concat(<<L_TO, L_MULTI_A, L_BLANK,
             L_OPEN_A, L_CT_TEXT_UTF8, L_CTE_BASE64, L_BLANK, L_B64_A_LF,
             L_OPEN_A, L_MULTI_B, L_BLANK,
             L_OPEN_B, L_CT_TEXT_UTF8, L_CTE_BASE64, L_BLANK, L_B64_A_LF,
             L_OPEN_B, L_CT_IMAGE, L_CTE_BASE64, L_BLANK, L_B64_ABC, L_BLANK,
             L_CLOSE_B, L_BLANK,
             L_OPEN_A, L_CT_TEXT_UTF8, L_CTE_BASE64, L_BLANK, L_B64_ABC,
             L_CLOSE_A>>)
\* Multiparts nested three deep, with a sibling part of the middle one after
\* the innermost closes.
IN_NESTED3 ==
    Concat(<<L_MULTI_A, L_BLANK,
             L_OPEN_A, L_MULTI_B, L_BLANK,
             L_OPEN_B, L_MULTI_C, L_BLANK,
             L_OPEN_C, L_CT_TEXT, L_BLANK, L_TEXT,
             L_CLOSE_C,
             L_OPEN_B, L_CTE_BASE64, L_BLANK, L_B64_ABC,
             L_CLOSE_B, L_CLOSE_A, L_TEXT>>)
\* tests/test_encoding.rs, TEST_EMAIL_BASE64 and TEST_EMAIL_INVALID_BASE64
IN_BASE64 == Concat(<<L_TO, L_CT_TEXT_UTF8, L_CTE_BASE64, L_BLANK, L_B64_ABC, L_B64_A_LF>>)
IN_INVALID_BASE64 == Concat(<<L_TO, L_CT_TEXT_UTF8, L_CTE_BASE64, L_BLANK, L_B64_BAD>>)
\* tests/test_encoding.rs, TEST_EMAIL_QP
IN_QP == Concat(<<L_TO, L_CT_TEXT_UTF8, L_CTE_QP, L_BLANK, L_QP_AB, L_QP_SOFT, L_TEXT>>)
\* Quoted-printable and base64 bodies that decode to nothing.
IN_QP_EMPTY == Concat(<<L_CTE_QP, L_BLANK, L_QP_SOFT>>)
IN_BASE64_EMPTY == Concat(<<L_CTE_BASE64, L_BLANK, L_BLANK>>)
\* A byte of iso-8859-1 in a quoted-printable, an 8bit and an unencoded body.
IN_QP_LATIN1 == Concat(<<L_CTE_QP, L_BLANK, L_QP_E9>>)
IN_QP_UTF8 == Concat(<<L_CT_TEXT_UTF8, L_CTE_QP, L_BLANK, L_QP_E9>>)
IN_8BIT == Concat(<<L_CT_TEXT, L_CTE_8BIT, L_CRLF, L_HIGH>>)
IN_PLAIN_HIGH == Concat(<<L_TO, L_BLANK, L_HIGH>>)
\* A transfer encoding the normalizer does not know.
IN_7BIT == Concat(<<L_CT_TEXT, L_CTE_7BIT, L_BLANK, L_HIGH, L_TEXT>>)
IN_7BIT_UTF8 == Concat(<<L_CT_TEXT_UTF8, L_CTE_7BIT, L_BLANK, L_HIGH>>)
\* An image part.
IN_IMAGE == Concat(<<L_CT_IMAGE, L_CTE_BASE64, L_BLANK, L_B64_ABC>>)
\* tests/test_fields.rs: folded fields, LF and CRLF.
IN_FOLDED == Concat(<<L_TO, L_FOLD, L_FOLD, L_TO, L_BLANK, L_TO, L_TEXT>>)
IN_FOLDED_CRLF == Concat(<<L_TO_CRLF, L_FOLD, L_CRLF, L_TEXT>>)
\* '\tz\n'
L_FOLD_TAB == <<9, 122, 10>>
\* ' y\r\n'
L_FOLD_CRLF == <<32, 121, 13, 10>>
\* 'To: x\r\r\n'
L_TO_CR_CRLF == <<84, 111, 58, 32, 120, 13, 13, 10>>
\* A field folded with SP and HTAB that ends the input: no blank line, no body.
IN_FOLDED_NO_BODY == Concat(<<L_TO, L_TO, L_FOLD, L_FOLD_TAB>>)
IN_FOLDED_NO_BODY_CRLF == Concat(<<L_TO_CRLF, L_TO_CRLF, L_FOLD_CRLF, L_FOLD_TAB>>)
\* A folded field whose first line has a CR before its CR LF.
IN_FOLDED_CR == Concat(<<L_TO_CR_CRLF, L_FOLD, L_BLANK>>)
\* 'TO: w\n'
L_TO_UPPER == <<84, 79, 58, 32, 119, 10>>
\* A field that occurs in the header in two spellings and in the body.
IN_OCCURRENCES == Concat(<<L_TO, L_TO_UPPER, L_CT_TEXT, L_TO_CRLF, L_FOLD, L_BLANK, L_TO_UPPER, L_TEXT>>)
\* Lines of the form of a header field in the body: one with the name of a
\* field of the header, one with a name the header does not have.
IN_BODY_FIELDS == Concat(<<L_TO, L_BLANK, L_TO_UPPER, L_CT_TEXT, L_TEXT>>)
\* 'S: =?utf-8?b?YQ==?=\n'
L_SUBJ_B == <<83, 58, 32, 61, 63, 117, 116, 102, 45, 56, 63, 98, 63, 89, 81, 61, 61, 63, 61, 10>>
\* ' =?UTF-8?Q?_=63?=\n'
L_WORD_Q == <<32, 61, 63, 85, 84, 70, 45, 56, 63, 81, 63, 95, 61, 54, 51, 63, 61, 10>>
\* '\t=?utf-8?B?Yg==?=\n'
L_WORD_B == <<9, 61, 63, 117, 116, 102, 45, 56, 63, 66, 63, 89, 103, 61, 61, 63, 61, 10>>
\* 'S: =?utf-8?q?a?= \t=?iso-8859-1?Q?=E9?= x =?us-ascii?q?=41?=\n'
L_SUBJ_TWO == <<83, 58, 32, 61, 63, 117, 116, 102, 45, 56, 63, 113, 63, 97, 63, 61, 32, 9, 61, 63, 105, 115, 111, 45, 56, 56, 53, 57, 45, 49, 63, 81, 63, 61, 69, 57, 63, 61, 32, 120, 32, 61, 63, 117, 115, 45, 97, 115, 99, 105, 105, 63, 113, 63, 61, 52, 49, 63, 61, 10>>
\* The continuation lines of the fields of encoded-words, and those fields:
\* a first line and one or two continuation lines, before a blank line.
WordLines == {L_WORD_Q, L_WORD_B, L_FOLD}
WordInputs ==
    {Concat(<<L_SUBJ_B, a, b, L_BLANK>>) : a \in WordLines, b \in WordLines \cup {<<>>}}
\* Three encoded-words on one line, the first two with white space between
\* them, the third after text.
IN_WORDS_ONE_LINE == Concat(<<L_TO, L_SUBJ_TWO, L_BLANK, L_TEXT>>)
\* 'S: =?utf-8?b?YQ=?=\n'
L_SUBJ_BAD_PAD == <<83, 58, 32, 61, 63, 117, 116, 102, 45, 56, 63, 98, 63, 89, 81, 61, 63, 61, 10>>
\* 'S: =?x-foo?q?a_=41?=\n'
L_SUBJ_BAD_CHARSET == <<83, 58, 32, 61, 63, 120, 45, 102, 111, 111, 63, 113, 63, 97, 95, 61, 52, 49, 63, 61, 10>>
\* Encoded-words that cannot be decoded: a base64 payload with one '=' too
\* few, a charset that is not a known label.
IN_BAD_WORDS == Concat(<<L_SUBJ_BAD_PAD, L_SUBJ_BAD_CHARSET, L_BLANK>>)
\* 'S: =?utf-8?b?-?=\n'
L_SUBJ_EMPTY_B == <<83, 58, 32, 61, 63, 117, 116, 102, 45, 56, 63, 98, 63, 45, 63, 61, 10>>
\* An encoded-word and a quoted-printable body that decode to nothing.
IN_EMPTY_DECODES == Concat(<<L_SUBJ_EMPTY_B, L_CTE_QP, L_BLANK, L_QP_SOFT>>)
\* Lines of the form of a header after the closing boundary line of a part.
IN_AFTER_CLOSE ==
    Concat(<<L_MULTI_A, L_BLANK, L_OPEN_A, L_TO, L_BLANK, L_TEXT, L_OPEN_A, L_BLANK, L_CLOSE_A,
             L_TO, L_FOLD, L_BLANK, L_TEXT>>)
\* A folded field before the blank line of a part, and a body of two lines
\* before the closing boundary line.
IN_FOLDED_PART ==
    Concat(<<L_MULTI_A, L_BLANK, L_OPEN_A, L_TO, L_FOLD, L_BLANK, L_TEXT, L_TEXT, L_CLOSE_A>>)
\* A base64 part whose text has no final line feed, before a boundary line.
IN_BASE64_PART ==
    Concat(<<L_MULTI_A, L_BLANK, L_OPEN_A, L_CTE_BASE64, L_BLANK, L_B64_ABC, L_CLOSE_A>>)
IN_QP_PART ==
    Concat(<<L_MULTI_A, L_BLANK, L_OPEN_A, L_CTE_QP, L_BLANK, L_QP_AB, L_QP_SOFT, L_OPEN_A,
             L_BLANK, L_TEXT, L_CLOSE_A>>)

Scenarios == {IN_BEGIN_AFTER_END, IN_FAKE_BOUNDARY, IN_MULTIPART, IN_NESTED3, IN_BASE64,
              IN_INVALID_BASE64, IN_QP, IN_QP_EMPTY, IN_BASE64_EMPTY, IN_QP_LATIN1,
              IN_QP_UTF8, IN_8BIT, IN_PLAIN_HIGH, IN_7BIT, IN_7BIT_UTF8, IN_IMAGE,
              IN_FOLDED, IN_FOLDED_CRLF, IN_BASE64_PART, IN_QP_PART,
              IN_FOLDED_NO_BODY, IN_FOLDED_NO_BODY_CRLF, IN_FOLDED_CR, IN_OCCURRENCES,
              IN_BODY_FIELDS, IN_WORDS_ONE_LINE, IN_BAD_WORDS,
              IN_AFTER_CLOSE, IN_FOLDED_PART, IN_EMPTY_DECODES}

\* ------------------------------------------------------------------------
\* State
\* ------------------------------------------------------------------------
VARIABLES
    input,       \* the bytes passed to Email::from_vec
    phase,       \* "normalizing", "constructed" or "panicked"
    parser,      \* the EmailParser of normalize_email
    normalized,  \* the buffer normalized of normalize_email
    fields,      \* the map fields of normalize_email
    elements,    \* history: the elements the parser returned, each with the
                 \* offset of normalized at which its bytes were appended and
                 \* the parser before and after the call of next() that gave it
    panic,       \* history: the place of the panic, "" when there is none
    email,       \* the Email from_vec returned: None, or Some of its fields
    clock,       \* the Unix second SystemTime::now() returned last, 0 before
    gen,         \* the EmailFilenameGenerator behind email_filename_gen
    mutex,       \* the Mutex around the generator: None, or Some of its holder
    issued,      \* history: the names the generator returned, in order, each
                 \* with the thread that asked and the second it sampled
    calls,       \* history: the calls of deliver_to_maildir made on each maildir
    lock,        \* the RwLock of deliver_path: the threads that hold a read guard
    inodes,      \* the files of the file system: their bytes and who made them
    fs,          \* the maildirs: the sub-directories that exist and their entries
    threads,     \* the threads that call deliver_to_maildir: where each one is
    output,      \* the Output of the last process call, None before it
    filtered,    \* the Email the last filter call returned, None before it
    child,       \* the child of a running Email::process with its two pipes, None
                 \* when no call of process is running
    budget,      \* what is left of the bounds on calls, I/O errors and foreign files
    decode       \* a decoder of decode.rs called by itself: None, or Some of
                 \* its name, its input, the buffer before the call and what
                 \* it returned

nvars == <<input, phase, parser, normalized, fields, elements, panic>>
dvars == <<clock, gen, mutex, issued, calls, lock, inodes, fs, threads, output, filtered,
           child, budget>>
vars == <<input, phase, parser, normalized, fields, elements, panic, email,
          clock, gen, mutex, issued, calls, lock, inodes, fs, threads, output, filtered,
          child, budget, decode>>

FileAndDirSync == "FileAndDirSync"
FileSyncOnly == "FileSyncOnly"

\* The Email of Email::from_vec, lines 230-246.
EmailBuild(raw, normalized_data, field_map, empty_line) ==
    [data |-> raw,
     normalized_data |-> normalized_data,
     body_index |-> IF empty_line # None THEN empty_line[1] ELSE Len(normalized_data),
     fields |-> field_map,
     deliver_path |-> None,
     delivery_durability |-> FileAndDirSync]

EmailNew(raw, normalized_data, field_map) ==
    EmailBuild(raw, normalized_data, field_map, find_empty_line(normalized_data))

\* The accessors of Email.
data(e) == e.normalized_data
header(e) == SubSeq(e.normalized_data, 1, e.body_index)
body(e) == From(e.normalized_data, e.body_index)
\* raw_data returning the normalized bytes.  C9 rules this variant out.
raw_data_normalized(e) == e.normalized_data
raw_data(e) == e.data
header_field_all_occurrences(e, name) ==
    IF to_lowercase(name) \in DOMAIN e.fields THEN Some(e.fields[to_lowercase(name)]) ELSE None
header_field(e, name) ==
    IF to_lowercase(name) \in DOMAIN e.fields THEN Some(e.fields[to_lowercase(name)][1]) ELSE None
header_field_names(e) == DOMAIN e.fields
has_been_delivered(e) == e.deliver_path # None

\* ------------------------------------------------------------------------
\* src/deliver.rs
\* ------------------------------------------------------------------------
Threads == {"t1", "t2"}
Maildirs == {"m1", "m2"}
SubDirs == {"tmp", "new", "cur"}

\* The bounds of the delivery model: the calls of deliver_to_maildir, the
\* I/O errors other than AlreadyExists, the files other programs put in a
\* maildir, and the last second of the clock.
MaxCalls == 2
MaxFaults == 1
MaxForeign == 1
MaxClock == 2
\* The calls of next() on a generator taken by itself.
MaxNames == 6

\* EmailFilenameGenerator::new.  max_seen_unix_time starts at 0.
EmailFilenameGeneratorNew == [count |-> 0, max_seen_unix_time |-> 0]

\* EmailFilenameGenerator::next at the second unix_time: the new generator
\* and the name.  The name "{unix_time}.{pid}_{count}.{hostname}" is the
\* pair of its two numbers that vary: the pid and the host name are those of
\* the process, and the decimal numbers are delimited by '.' and '_'.
EmailFilename(unix_time, count) == <<unix_time, count>>

\* next resetting count also when the second is the largest seen.  C17
\* rules this variant out.
EmailFilenameGeneratorNextLe(g, unix_time) ==
    LET g1 == IF g.max_seen_unix_time <= unix_time
              THEN [count |-> 0, max_seen_unix_time |-> unix_time]
              ELSE [g EXCEPT !.count = @ + 1]
    IN [gen |-> g1, name |-> EmailFilename(unix_time, g1.count)]

EmailFilenameGeneratorNext(g, unix_time) ==
    LET g1 == IF g.max_seen_unix_time < unix_time
              THEN [count |-> 0, max_seen_unix_time |-> unix_time]
              ELSE [g EXCEPT !.count = @ + 1]
    IN [gen |-> g1, name |-> EmailFilename(unix_time, g1.count)]

\* A directory is a set of entries [name, ino].
HasName(dir, name) == \E e \in dir : e.name = name
InoOf(dir, name) == (CHOOSE e \in dir : e.name = name).ino
\* The bytes of the file a path [m, name] of new/ names, None if there is
\* no such entry.
NewFile(m, name) ==
    IF HasName(fs[m].new, name) THEN Some(inodes[InoOf(fs[m].new, name)]) ELSE None

\* A thread outside deliver_to_maildir.  ret is what its last call returned:
\* None before it, else Some of [ok, m, name, durability, src, made, log],
\* the path being new/name of m.  src, made and log are the history of the
\* call: the recorded path it read, the files it created and its system
\* calls with their results.  g0, now and
\* via belong to the generator: the generator found under the mutex, the
\* second sampled and the caller.
ThreadIdle == [pc |-> "idle", m |-> "m1", name |-> <<0, 0>>, src |-> None, ino |-> 0,
               link |-> "", g0 |-> EmailFilenameGeneratorNew, now |-> 0, via |-> "",
               made |-> {}, log |-> <<>>, ret |-> None]

DeliverInit ==
    /\ clock = 0
    /\ gen = EmailFilenameGeneratorNew
    /\ mutex = None
    /\ issued = <<>>
    /\ calls = [m \in Maildirs |-> 0]
    /\ lock = {}
    /\ inodes = <<>>
    /\ fs = [m \in Maildirs |-> [dirs |-> {}, tmp |-> {}, new |-> {}, cur |-> {}]]
    /\ threads = [t \in Threads |-> ThreadIdle]
    /\ output = None
    /\ filtered = None
    /\ child = None
    /\ budget = [calls |-> MaxCalls, faults |-> MaxFaults, foreign |-> MaxForeign]

StartState ==
    /\ phase = "normalizing"
    /\ parser = ParserNew
    /\ normalized = <<>>
    /\ fields = <<>>
    /\ elements = <<>>
    /\ panic = ""
    /\ email = None
    /\ DeliverInit

NormalizeInit ==
    /\ (input \in ShortInputs \/ input \in Scenarios \/ input \in WordInputs)
    /\ StartState
    /\ decode = None

\* The loop of normalize_email adding to the map for every element.  C25
\* rules this variant out.
StepElementAll(kind, r) ==
    /\ r.panic = ""
    /\ r.element # None
    /\ r.element[1].kind = kind
    /\ parser' = r.p
    /\ normalized' = normalize_element(r.element[1], normalized)
    /\ fields' = fields_push(fields, field_entry(From(normalized', Len(normalized))))
    /\ elements' = Append(elements, [el |-> r.element[1], at |-> Len(normalized),
                                      before |-> parser, after |-> r.p])

\* One iteration of "for element in parser" in normalize_email whose
\* element r.element is of the given kind: the arm of the match.
StepElement(kind, r) ==
    /\ r.panic = ""
    /\ r.element # None
    /\ r.element[1].kind = kind
    /\ parser' = r.p
    /\ normalized' = normalize_element(r.element[1], normalized)
    /\ fields' = IF kind = "HeaderField"
                 THEN fields_push(fields, field_entry(From(normalized', Len(normalized))))
                 ELSE fields
    /\ elements' = Append(elements, [el |-> r.element[1], at |-> Len(normalized),
                                      before |-> parser, after |-> r.p])

NextHeaderField ==
    /\ phase = "normalizing"
    /\ StepElement("HeaderField", EmailParserNext(input, parser))
    /\ UNCHANGED <<input, phase, panic, email>>
    /\ UNCHANGED <<dvars, decode>>

NextBody ==
    /\ phase = "normalizing"
    /\ StepElement("Body", EmailParserNext(input, parser))
    /\ UNCHANGED <<input, phase, panic, email>>
    /\ UNCHANGED <<dvars, decode>>

NextVerbatim ==
    /\ phase = "normalizing"
    /\ StepElement("Verbatim", EmailParserNext(input, parser))
    /\ UNCHANGED <<input, phase, panic, email>>
    /\ UNCHANGED <<dvars, decode>>

\* EmailParser::next panics: from_vec does not return.
StepPanic(r) ==
    /\ r.panic # ""
    /\ panic' = r.panic
    /\ parser' = r.p

NextPanic ==
    /\ phase = "normalizing"
    /\ StepPanic(EmailParserNext(input, parser))
    /\ phase' = "panicked"
    /\ UNCHANGED <<input, normalized, fields, elements, email>>
    /\ UNCHANGED <<dvars, decode>>

\* The parser is exhausted: normalize_email returns and from_vec builds the
\* Email.
StepEnd(r) ==
    /\ r.panic = ""
    /\ r.element = None
    /\ parser' = r.p

FromVecReturn ==
    /\ phase = "normalizing"
    /\ StepEnd(EmailParserNext(input, parser))
    /\ email' = Some(EmailNew(input, normalized, fields))
    /\ phase' = "constructed"
    /\ UNCHANGED <<input, normalized, fields, elements, panic>>
    /\ UNCHANGED <<dvars, decode>>

\* header, body, data, raw_data, header_field, header_field_all_occurrences,
\* header_field_names, has_been_delivered: they take &self and return a
\* view; nothing is written.
Lookup ==
    /\ phase = "constructed"
    /\ \E name \in {L_TO, L_NO_EOL} :
          header(email[1]) \o body(email[1]) = data(email[1])
          \/ header_field(email[1], name) = None
          \/ raw_data(email[1]) # <<>>
          \/ TRUE
    /\ UNCHANGED vars

\* Email::set_delivery_durability
SetDeliveryDurability(d) ==
    /\ phase = "constructed"
    /\ \A t \in Threads : threads[t].pc = "idle"
    /\ email' = Some([email[1] EXCEPT !.delivery_durability = d])
    /\ UNCHANGED nvars
    /\ UNCHANGED <<dvars, decode>>

NormalizeNext ==
    \/ NextHeaderField
    \/ NextBody
    \/ NextVerbatim
    \/ NextPanic
    \/ FromVecReturn
    \/ Lookup
    \/ \E d \in {FileAndDirSync, FileSyncOnly} : SetDeliveryDurability(d)

Spec == NormalizeInit /\ [][NormalizeNext]_vars

\* normalize_email as a function: the loop over the parser run to its end.
RECURSIVE normalize_run(_, _, _, _)
run_element(buf, p, norm, flds, element, n2) ==
    normalize_run(buf, p, n2,
                  IF element.kind = "HeaderField"
                  THEN fields_push(flds, field_entry(From(n2, Len(norm))))
                  ELSE flds)

run_next(buf, norm, flds, r) ==
    IF r.panic # ""
    THEN [panic |-> r.panic, normalized |-> norm, fields |-> flds]
    ELSE IF r.element = None
    THEN [panic |-> "", normalized |-> norm, fields |-> flds]
    ELSE run_element(buf, r.p, norm, flds, r.element[1],
                     normalize_element(r.element[1], norm))

normalize_run(buf, p, norm, flds) == run_next(buf, norm, flds, EmailParserNext(buf, p))

normalize_email(buf) == normalize_run(buf, ParserNew, <<>>, <<>>)

\* Email::from_vec as a function: None when normalize_email panics.
from_vec_result(buf, r) ==
    IF r.panic # "" THEN None ELSE Some(EmailNew(buf, r.normalized, r.fields))

from_vec(buf) == from_vec_result(buf, normalize_email(buf))

\* ------------------------------------------------------------------------
\* Delivery: Email::deliver_to_maildir_path, Maildir::deliver and
\* Maildir::deliver_with_hard_link, one action per system call or lock
\* operation of a thread.  The threads share one Email by reference.
\* ------------------------------------------------------------------------
\* 'To: x,\r\n y\n\nhi\n', whose normalized bytes differ from the raw ones, and
\* an input on which from_vec does not return.
DeliverInputs == {Concat(<<L_TO_CRLF, L_FOLD, L_BLANK, L_TEXT>>), IN_BEGIN_AFTER_END}

DeliverInitState ==
    /\ input \in DeliverInputs
    /\ StartState
    /\ decode = None

\* The bytes deliver_to_maildir_path passes to Maildir::deliver.
deliver_data(e) == e.data

Spend(what) == [budget EXCEPT ![what] = @ - 1]

\* deliver_to_maildir_path returns after the system call ev: the read guard,
\* if held, is dropped.  The result keeps the durability of the call and
\* the system calls the call made.
Returned(t, ok, m, name, ev) ==
    [threads EXCEPT ![t] =
        [ThreadIdle EXCEPT !.ret = Some([ok |-> ok, m |-> m, name |-> name,
                                         durability |-> email[1].delivery_durability,
                                         src |-> threads[t].src,
                                         made |-> threads[t].made,
                                         log |-> Append(threads[t].log, ev)])]]
ReturnErr(t, ev) == Returned(t, FALSE, threads[t].m, <<0, 0>>, ev)
ReturnOk(t, ev) == Returned(t, TRUE, threads[t].m, threads[t].name, ev)

\* The thread goes on at pc after the system call ev.
Goto(t, pc, ev) == [threads EXCEPT ![t].pc = pc, ![t].log = Append(@, ev)]

\* The threads are interchangeable and so are the maildirs: the second
\* thread comes into play after the first, the second maildir after the first.
InOrder(t, m) ==
    /\ (t = "t1" \/ threads["t1"] # ThreadIdle)
    /\ (m = "m1" \/ fs["m1"].dirs # {})

\* A call of deliver_to_maildir(m) whose Maildir::open_or_create succeeds.
DeliverToMaildir(t, m) ==
    /\ phase = "constructed"
    /\ threads[t].pc = "idle"
    /\ InOrder(t, m)
    /\ budget.calls > 0
    /\ fs' = [fs EXCEPT ![m].dirs = SubDirs]
    /\ threads' = [threads EXCEPT ![t] = [ThreadIdle EXCEPT !.pc = "read_path", !.m = m]]
    /\ budget' = Spend("calls")
    /\ calls' = [calls EXCEPT ![m] = @ + 1]
    /\ UNCHANGED <<email, clock, gen, mutex, issued, lock, inodes, output, filtered, child>>
    /\ UNCHANGED <<nvars, decode>>

\* A call whose open_or_create fails at the directory after the first k.
OpenOrCreateFail(t, m) ==
    /\ phase = "constructed"
    /\ threads[t].pc = "idle"
    /\ InOrder(t, m)
    /\ budget.calls > 0
    /\ budget.faults > 0
    /\ \E k \in 0..2 :
          fs' = [fs EXCEPT ![m].dirs = @ \cup {<<"tmp", "new", "cur">>[i] : i \in 1..k}]
    /\ threads' = Returned(t, FALSE, m, <<0, 0>>, "create_dir_all_err")
    /\ budget' = [budget EXCEPT !.calls = @ - 1, !.faults = @ - 1]
    /\ calls' = [calls EXCEPT ![m] = @ + 1]
    /\ UNCHANGED <<email, clock, gen, mutex, issued, lock, inodes, output, filtered, child>>
    /\ UNCHANGED <<nvars, decode>>

\* deliver_to_maildir_path going to Maildir::deliver whatever deliver_path
\* holds.  C15 rules this variant out.
ReadDeliverPathDirect(t) ==
    /\ threads[t].pc = "read_path"
    /\ lock' = lock
    /\ threads' = [threads EXCEPT ![t].pc = "dl_gen"]
    /\ UNCHANGED <<email, clock, gen, mutex, issued, calls, inodes, fs, output, filtered, child, budget>>
    /\ UNCHANGED <<nvars, decode>>

\* self.deliver_path.read(): with Some(path) the guard is held for the whole
\* if-let block.
ReadDeliverPath(t) ==
    /\ threads[t].pc = "read_path"
    /\ IF email[1].deliver_path # None
       THEN /\ lock' = lock \cup {t}
            /\ threads' = [threads EXCEPT ![t].pc = "hl_gen", ![t].src = email[1].deliver_path]
       ELSE /\ lock' = lock
            /\ threads' = [threads EXCEPT ![t].pc = "dl_gen"]
    /\ UNCHANGED <<email, clock, gen, mutex, issued, calls, inodes, fs, output, filtered, child, budget>>
    /\ UNCHANGED <<nvars, decode>>

\* next_email_filename_candidate: self.email_filename_gen.lock().  The
\* thread waits until the mutex is free; g0 is the generator it finds.
GenLockFree(t) ==
    /\ threads[t].pc \in {"hl_gen", "dl_gen"}
    /\ mutex' = Some(t)
    /\ threads' = [threads EXCEPT ![t].pc = "gen_next", ![t].g0 = gen,
                      ![t].via = IF threads[t].pc = "hl_gen" THEN "hard_link" ELSE "deliver"]
    /\ UNCHANGED <<email, clock, gen, issued, calls, lock, inodes, fs, output, filtered, child, budget>>
    /\ UNCHANGED <<nvars, decode>>

GenLock(t) ==
    /\ threads[t].pc \in {"hl_gen", "dl_gen"}
    /\ mutex = None
    /\ mutex' = Some(t)
    /\ threads' = [threads EXCEPT ![t].pc = "gen_next", ![t].g0 = gen,
                      ![t].via = IF threads[t].pc = "hl_gen" THEN "hard_link" ELSE "deliver"]
    /\ UNCHANGED <<email, clock, gen, issued, calls, lock, inodes, fs, output, filtered, child, budget>>
    /\ UNCHANGED <<nvars, decode>>

\* EmailFilenameGenerator::next up to the update of max_seen_unix_time and
\* count.  SystemTime::now() is the wall clock: it returns any second, an
\* earlier one than before when the clock was set back.
GenNext(t) ==
    /\ threads[t].pc = "gen_next"
    /\ \E unix_time \in 1..MaxClock :
          /\ clock' = unix_time
          /\ gen' = EmailFilenameGeneratorNext(gen, unix_time).gen
          /\ threads' = [threads EXCEPT ![t].pc = "gen_format", ![t].now = unix_time]
    /\ UNCHANGED <<email, mutex, issued, calls, lock, inodes, fs, output, filtered, child, budget>>
    /\ UNCHANGED <<nvars, decode>>

\* The format! of EmailFilenameGenerator::next, which reads self.count, and
\* the end of next_email_filename_candidate, where the guard is dropped.
GenFormat(t) ==
    /\ threads[t].pc = "gen_format"
    /\ mutex' = None
    /\ threads' = [threads EXCEPT
                      ![t].pc = IF threads[t].via = "hard_link" THEN "hl_link" ELSE "dl_create",
                      ![t].name = EmailFilename(threads[t].now, gen.count)]
    /\ issued' = Append(issued, [t |-> t, unix_time |-> threads[t].now,
                                 name |-> EmailFilename(threads[t].now, gen.count)])
    /\ UNCHANGED <<email, clock, gen, calls, lock, inodes, fs, output, filtered, child, budget>>
    /\ UNCHANGED <<nvars, decode>>

\* fs::hard_link(src, new/name) of deliver_with_hard_link.
HlLink(t) ==
    /\ threads[t].pc = "hl_link"
    /\ LET th == threads[t]
           src == th.src[1]
       IN
       IF ~HasName(fs[src.m].new, src.name)
       THEN \* the source is gone: an error, deliver is tried
            /\ fs' = fs
            /\ lock' = lock \ {t}
            /\ threads' = Goto(t, "dl_gen", "hl_link_err")
       ELSE IF HasName(fs[th.m].new, th.name)
       THEN \* AlreadyExists: the loop takes another name
            /\ fs' = fs
            /\ lock' = lock
            /\ threads' = Goto(t, "hl_gen", "hl_link_exists")
       ELSE /\ fs' = [fs EXCEPT ![th.m].new =
                         @ \cup {[name |-> th.name, ino |-> InoOf(fs[src.m].new, src.name)]}]
            /\ IF email[1].delivery_durability = FileAndDirSync
               THEN lock' = lock /\ threads' = Goto(t, "hl_sync", "hl_link_ok")
               ELSE lock' = lock \ {t} /\ threads' = ReturnOk(t, "hl_link_ok")
    /\ UNCHANGED <<email, clock, gen, mutex, issued, calls, inodes, output, filtered, child, budget>>
    /\ UNCHANGED <<nvars, decode>>

\* hard_link fails with an error other than AlreadyExists.
HlLinkFail(t) ==
    /\ threads[t].pc = "hl_link"
    /\ budget.faults > 0
    /\ lock' = lock \ {t}
    /\ threads' = Goto(t, "dl_gen", "hl_link_err")
    /\ budget' = Spend("faults")
    /\ UNCHANGED <<email, clock, gen, mutex, issued, calls, inodes, fs, output, filtered, child>>
    /\ UNCHANGED <<nvars, decode>>

\* File::open(&new_dir)?.sync_all()? of deliver_with_hard_link.
HlSync(t) ==
    /\ threads[t].pc = "hl_sync"
    /\ lock' = lock \ {t}
    /\ threads' = ReturnOk(t, "hl_sync_new_ok")
    /\ UNCHANGED <<email, clock, gen, mutex, issued, calls, inodes, fs, output, filtered, child, budget>>
    /\ UNCHANGED <<nvars, decode>>

\* The sync failing with the read guard kept to the end of
\* deliver_to_maildir_path.  C38 rules this variant out.
HlSyncFailKeepGuard(t) ==
    /\ threads[t].pc = "hl_sync"
    /\ budget.faults > 0
    /\ lock' = lock
    /\ threads' = Goto(t, "dl_gen", "hl_sync_new_err")
    /\ budget' = Spend("faults")
    /\ UNCHANGED <<email, clock, gen, mutex, issued, calls, inodes, fs, output, filtered, child>>
    /\ UNCHANGED <<nvars, decode>>

\* The sync fails after the link was made: deliver_with_hard_link returns
\* Err and deliver_to_maildir_path goes on to Maildir::deliver.
HlSyncFail(t) ==
    /\ threads[t].pc = "hl_sync"
    /\ budget.faults > 0
    /\ lock' = lock \ {t}
    /\ threads' = Goto(t, "dl_gen", "hl_sync_new_err")
    /\ budget' = Spend("faults")
    /\ UNCHANGED <<email, clock, gen, mutex, issued, calls, inodes, fs, output, filtered, child>>
    /\ UNCHANGED <<nvars, decode>>

\* OpenOptions::new().create_new(true).custom_flags(libc::O_SYNC).open(tmp/name)
\* of write_email_to_dir.
DlCreate(t) ==
    /\ threads[t].pc = "dl_create"
    /\ LET th == threads[t] IN
       IF HasName(fs[th.m].tmp, th.name)
       THEN \* AlreadyExists: the loop takes another name
            /\ inodes' = inodes
            /\ fs' = fs
            /\ threads' = Goto(t, "dl_gen", "create_exists")
       ELSE /\ inodes' = Append(inodes, [content |-> <<>>, by |-> "email", o_sync |-> TRUE])
            /\ fs' = [fs EXCEPT ![th.m].tmp = @ \cup {[name |-> th.name, ino |-> Len(inodes) + 1]}]
            /\ threads' = [threads EXCEPT ![t].pc = "dl_write", ![t].ino = Len(inodes) + 1,
                                          ![t].made = @ \cup {Len(inodes) + 1},
                                          ![t].log = Append(@, "create_ok")]
    /\ UNCHANGED <<email, clock, gen, mutex, issued, calls, lock, output, filtered, child, budget>>
    /\ UNCHANGED <<nvars, decode>>

\* The match on the result of open taking every error for AlreadyExists: the
\* loop goes on.  C36 rules this variant out.
DlCreateFailRetry(t) ==
    /\ threads[t].pc = "dl_create"
    /\ budget.faults > 0
    /\ threads' = Goto(t, "dl_gen", "create_err")
    /\ budget' = Spend("faults")
    /\ UNCHANGED <<email, clock, gen, mutex, issued, calls, lock, inodes, fs, output, filtered,
                   child>>
    /\ UNCHANGED <<nvars, decode>>

\* The open fails with an error other than AlreadyExists.
DlCreateFail(t) ==
    /\ threads[t].pc = "dl_create"
    /\ budget.faults > 0
    /\ threads' = ReturnErr(t, "create_err")
    /\ budget' = Spend("faults")
    /\ UNCHANGED <<email, clock, gen, mutex, issued, calls, lock, inodes, fs, output, filtered, child>>
    /\ UNCHANGED <<nvars, decode>>

\* write_all returning after its first write, short or not.  C10 rules this
\* variant out.
DlWriteShort(t) ==
    /\ threads[t].pc = "dl_write"
    /\ LET th == threads[t]
           bytes == deliver_data(email[1])
           have == Len(inodes[th.ino].content)
           rest == Len(bytes) - have
       IN
       \E k \in {rest} \cup {x \in {rest \div 2} : x >= 1 /\ have = 0} :
          /\ inodes' = [inodes EXCEPT ![th.ino].content = SubSeq(bytes, 1, have + k)]
          /\ threads' = Goto(t, "dl_link", "write_all_ok")
    /\ UNCHANGED <<email, clock, gen, mutex, issued, calls, lock, fs, output, filtered, child, budget>>
    /\ UNCHANGED <<nvars, decode>>

\* One write of f.write_all(&data): the rest of the data, or the first
\* half of it.
DlWrite(t) ==
    /\ threads[t].pc = "dl_write"
    /\ LET th == threads[t]
           bytes == deliver_data(email[1])
           have == Len(inodes[th.ino].content)
           rest == Len(bytes) - have
       IN
       \E k \in {rest} \cup {x \in {rest \div 2} : x >= 1 /\ have = 0} :
          /\ inodes' = [inodes EXCEPT ![th.ino].content = SubSeq(bytes, 1, have + k)]
          /\ threads' = IF have + k = Len(bytes) THEN Goto(t, "dl_link", "write_all_ok")
                        ELSE threads
    /\ UNCHANGED <<email, clock, gen, mutex, issued, calls, lock, fs, output, filtered, child, budget>>
    /\ UNCHANGED <<nvars, decode>>

\* write_all fails: write_email_to_dir returns Err, the file stays in tmp/.
DlWriteFail(t) ==
    /\ threads[t].pc = "dl_write"
    /\ budget.faults > 0
    /\ threads' = ReturnErr(t, "write_all_err")
    /\ budget' = Spend("faults")
    /\ UNCHANGED <<email, clock, gen, mutex, issued, calls, lock, inodes, fs, output, filtered, child>>
    /\ UNCHANGED <<nvars, decode>>

\* hard_link replacing an entry of new/ that has the name, as rename does.
\* C11 rules this variant out.
DlLinkOverwrite(t) ==
    /\ threads[t].pc = "dl_link"
    /\ LET th == threads[t] IN
       /\ fs' = [fs EXCEPT ![th.m].new =
                    {e \in @ : e.name # th.name} \cup {[name |-> th.name, ino |-> th.ino]}]
       /\ threads' = [threads EXCEPT ![t].pc = "dl_remove", ![t].link = "ok",
                                     ![t].log = Append(@, "link_ok")]
    /\ UNCHANGED <<email, clock, gen, mutex, issued, calls, lock, inodes, output, filtered, child, budget>>
    /\ UNCHANGED <<nvars, decode>>

\* let result = fs::hard_link(&tmp_email, &new_email) of Maildir::deliver.
DlLink(t) ==
    /\ threads[t].pc = "dl_link"
    /\ LET th == threads[t] IN
       IF HasName(fs[th.m].new, th.name)
       THEN /\ fs' = fs
            /\ threads' = [threads EXCEPT ![t].pc = "dl_remove", ![t].link = "exists",
                                          ![t].log = Append(@, "link_exists")]
       ELSE /\ fs' = [fs EXCEPT ![th.m].new = @ \cup {[name |-> th.name, ino |-> th.ino]}]
            /\ threads' = [threads EXCEPT ![t].pc = "dl_remove", ![t].link = "ok",
                                          ![t].log = Append(@, "link_ok")]
    /\ UNCHANGED <<email, clock, gen, mutex, issued, calls, lock, inodes, output, filtered, child, budget>>
    /\ UNCHANGED <<nvars, decode>>

\* hard_link fails with an error other than AlreadyExists.
DlLinkFail(t) ==
    /\ threads[t].pc = "dl_link"
    /\ budget.faults > 0
    /\ threads' = [threads EXCEPT ![t].pc = "dl_remove", ![t].link = "err",
                                  ![t].log = Append(@, "link_err")]
    /\ budget' = Spend("faults")
    /\ UNCHANGED <<email, clock, gen, mutex, issued, calls, lock, inodes, fs, output, filtered, child>>
    /\ UNCHANGED <<nvars, decode>>

\* The match on result taking AlreadyExists for Ok: the name of a file
\* another program made is returned.  C31 rules this variant out.
DlRemoveAnyLink(t) ==
    /\ threads[t].pc = "dl_remove"
    /\ LET th == threads[t] IN
       /\ fs' = [fs EXCEPT ![th.m].tmp = @ \ {[name |-> th.name, ino |-> th.ino]}]
       /\ threads' =
             IF th.link \in {"ok", "exists"}
             THEN IF email[1].delivery_durability = FileAndDirSync
                  THEN Goto(t, "dl_sync_new", "remove_ok")
                  ELSE Goto(t, "dl_record", "remove_ok")
             ELSE ReturnErr(t, "remove_ok")
    /\ UNCHANGED <<email, clock, gen, mutex, issued, calls, lock, inodes, output, filtered, child, budget>>
    /\ UNCHANGED <<nvars, decode>>

\* fs::remove_file(&tmp_email)? and the match on result.
DlRemove(t) ==
    /\ threads[t].pc = "dl_remove"
    /\ LET th == threads[t] IN
       /\ fs' = [fs EXCEPT ![th.m].tmp = @ \ {[name |-> th.name, ino |-> th.ino]}]
       /\ threads' =
             IF th.link = "ok"
             THEN IF email[1].delivery_durability = FileAndDirSync
                  THEN Goto(t, "dl_sync_new", "remove_ok")
                  ELSE Goto(t, "dl_record", "remove_ok")
             ELSE IF th.link = "exists"
             THEN Goto(t, "dl_gen", "remove_ok")
             ELSE ReturnErr(t, "remove_ok")
    /\ UNCHANGED <<email, clock, gen, mutex, issued, calls, lock, inodes, output, filtered, child, budget>>
    /\ UNCHANGED <<nvars, decode>>

\* remove_file fails: deliver returns Err whatever the link did.
DlRemoveFail(t) ==
    /\ threads[t].pc = "dl_remove"
    /\ budget.faults > 0
    /\ threads' = ReturnErr(t, "remove_err")
    /\ budget' = Spend("faults")
    /\ UNCHANGED <<email, clock, gen, mutex, issued, calls, lock, inodes, fs, output, filtered, child>>
    /\ UNCHANGED <<nvars, decode>>

\* Maildir::deliver without the sync of tmp/.  C16 rules this variant out.
DlSyncNewOnly(t) ==
    /\ threads[t].pc = "dl_sync_new"
    /\ threads' = Goto(t, "dl_record", "sync_new_ok")
    /\ UNCHANGED <<email, clock, gen, mutex, issued, calls, lock, inodes, fs, output, filtered, child, budget>>
    /\ UNCHANGED <<nvars, decode>>

\* File::open(&new_dir)?.sync_all()? and File::open(&tmp_dir)?.sync_all()?.
DlSyncNew(t) ==
    /\ threads[t].pc = "dl_sync_new"
    /\ threads' = Goto(t, "dl_sync_tmp", "sync_new_ok")
    /\ UNCHANGED <<email, clock, gen, mutex, issued, calls, lock, inodes, fs, output, filtered, child, budget>>
    /\ UNCHANGED <<nvars, decode>>

DlSyncTmp(t) ==
    /\ threads[t].pc = "dl_sync_tmp"
    /\ threads' = Goto(t, "dl_record", "sync_tmp_ok")
    /\ UNCHANGED <<email, clock, gen, mutex, issued, calls, lock, inodes, fs, output, filtered, child, budget>>
    /\ UNCHANGED <<nvars, decode>>

\* A failing sync that records the path of the email all the same.  C14
\* rules this variant out.
DlSyncFailRecorded(t) ==
    /\ threads[t].pc \in {"dl_sync_new", "dl_sync_tmp"}
    /\ budget.faults > 0
    /\ email' = Some([email[1] EXCEPT
                         !.deliver_path = Some([m |-> threads[t].m, name |-> threads[t].name])])
    /\ threads' = ReturnErr(t, IF threads[t].pc = "dl_sync_new" THEN "sync_new_err"
                               ELSE "sync_tmp_err")
    /\ budget' = Spend("faults")
    /\ UNCHANGED <<clock, gen, mutex, issued, calls, lock, inodes, fs, output, filtered, child>>
    /\ UNCHANGED <<nvars, decode>>

\* One of the two syncs fails: deliver returns Err, the email stays in new/.
DlSyncFail(t) ==
    /\ threads[t].pc \in {"dl_sync_new", "dl_sync_tmp"}
    /\ budget.faults > 0
    /\ threads' = ReturnErr(t, IF threads[t].pc = "dl_sync_new" THEN "sync_new_err"
                               ELSE "sync_tmp_err")
    /\ budget' = Spend("faults")
    /\ UNCHANGED <<email, clock, gen, mutex, issued, calls, lock, inodes, fs, output, filtered, child>>
    /\ UNCHANGED <<nvars, decode>>

\* *self.deliver_path.write().unwrap() = Some(email_path.clone()); Ok(email_path)
\* The write lock waits until no read guard is held.
RecordDeliverPath(t) ==
    /\ threads[t].pc = "dl_record"
    /\ lock = {}
    /\ email' = Some([email[1] EXCEPT
                         !.deliver_path = Some([m |-> threads[t].m, name |-> threads[t].name])])
    /\ threads' = ReturnOk(t, "record")
    /\ UNCHANGED <<clock, gen, mutex, issued, calls, lock, inodes, fs, output, filtered, child, budget>>
    /\ UNCHANGED <<nvars, decode>>

\* ------------------------------------------------------------------------
\* The world around the delivery: other programs that deliver to the maildir.
\* ------------------------------------------------------------------------
\* Another program makes a file under the name a thread is about to use,
\* in tmp/ before the thread creates its file, in new/ before it links.
ForeignFile(t) ==
    /\ budget.foreign > 0
    /\ threads[t].pc \in {"dl_create", "dl_link", "hl_link"}
    /\ LET th == threads[t]
           d == IF th.pc = "dl_create" THEN "tmp" ELSE "new"
       IN
       /\ ~HasName(fs[th.m][d], th.name)
       /\ inodes' = Append(inodes, [content |-> <<SP>>, by |-> "foreign", o_sync |-> FALSE])
       /\ fs' = [fs EXCEPT ![th.m][d] = @ \cup {[name |-> th.name, ino |-> Len(inodes) + 1]}]
    /\ budget' = Spend("foreign")
    /\ UNCHANGED <<email, clock, gen, mutex, issued, calls, lock, threads, output, filtered, child>>
    /\ UNCHANGED <<nvars, decode>>

\* ------------------------------------------------------------------------
\* src/processing.rs
\* ------------------------------------------------------------------------
Commands == {"cat", "false", "nonexistent"}

\* The child of Command::new(cmd[0]) fed with stdin: None when the spawn
\* fails, else Some of the exit status and the standard output.
child_run(cmd, stdin) ==
    IF cmd = "cat" THEN Some([status |-> 0, stdout |-> stdin])
    ELSE IF cmd = "false" THEN Some([status |-> 1, stdout |-> <<>>])
    ELSE None

\* Email::process: the child reads self.data.
process(e, cmd) == child_run(cmd, e.data)

\* process and filter share no state with a delivery: they are taken
\* between the deliveries.
ProcessChild(o) == output' = IF o # None THEN o ELSE output

Process(cmd) ==
    /\ phase = "constructed"
    /\ \A t \in Threads : threads[t].pc = "idle"
    /\ budget.calls > 0
    /\ ProcessChild(process(email[1], cmd))
    /\ budget' = Spend("calls")
    /\ UNCHANGED <<email, clock, gen, mutex, issued, calls, lock, inodes, fs, threads, filtered, child>>
    /\ UNCHANGED <<nvars, decode>>

\* Email::filter: Email::from_vec(self.process(cmd)?.stdout), a new Email.
FilterOutput(o, r) ==
    /\ output' = Some(o)
    /\ IF r.panic # ""
       THEN /\ phase' = "panicked"
            /\ panic' = r.panic
            /\ filtered' = filtered
       ELSE /\ filtered' = from_vec_result(o.stdout, r)
            /\ UNCHANGED <<phase, panic>>

FilterChild(o) ==
    IF o = None
    THEN UNCHANGED <<output, filtered, phase, panic>>
    ELSE FilterOutput(o[1], normalize_email(o[1].stdout))

Filter(cmd) ==
    /\ phase = "constructed"
    /\ \A t \in Threads : threads[t].pc = "idle"
    /\ budget.calls > 0
    /\ FilterChild(process(email[1], cmd))
    /\ budget' = Spend("calls")
    /\ UNCHANGED <<email, clock, gen, mutex, issued, calls, lock, inodes, fs, threads, child>>
    /\ UNCHANGED <<input, parser, normalized, fields, elements, decode>>

DeliverNext ==
    \/ \E t \in Threads, m \in Maildirs : DeliverToMaildir(t, m)
    \/ \E t \in Threads, m \in Maildirs : OpenOrCreateFail(t, m)
    \/ \E t \in Threads : ReadDeliverPath(t)
    \/ \E t \in Threads : GenLock(t)
    \/ \E t \in Threads : GenNext(t)
    \/ \E t \in Threads : GenFormat(t)
    \/ \E t \in Threads : HlLink(t)
    \/ \E t \in Threads : HlLinkFail(t)
    \/ \E t \in Threads : HlSync(t)
    \/ \E t \in Threads : HlSyncFail(t)
    \/ \E t \in Threads : DlCreate(t)
    \/ \E t \in Threads : DlCreateFail(t)
    \/ \E t \in Threads : DlWrite(t)
    \/ \E t \in Threads : DlWriteFail(t)
    \/ \E t \in Threads : DlLink(t)
    \/ \E t \in Threads : DlLinkFail(t)
    \/ \E t \in Threads : DlRemove(t)
    \/ \E t \in Threads : DlRemoveFail(t)
    \/ \E t \in Threads : DlSyncNew(t)
    \/ \E t \in Threads : DlSyncTmp(t)
    \/ \E t \in Threads : DlSyncFail(t)
    \/ \E t \in Threads : RecordDeliverPath(t)
    \/ \E t \in Threads : ForeignFile(t)
    \/ \E cmd \in Commands : Process(cmd)
    \/ \E cmd \in Commands : Filter(cmd)

SpecDeliver == DeliverInitState /\ [][NormalizeNext \/ DeliverNext]_vars

\* The steps of a thread inside deliver_to_maildir_path that no I/O error
\* other than AlreadyExists takes.
ThreadNext(t) ==
    \/ ReadDeliverPath(t)
    \/ GenLock(t)
    \/ GenNext(t)
    \/ GenFormat(t)
    \/ HlLink(t)
    \/ HlSync(t)
    \/ DlCreate(t)
    \/ DlWrite(t)
    \/ DlLink(t)
    \/ DlRemove(t)
    \/ DlSyncNew(t)
    \/ DlSyncTmp(t)
    \/ RecordDeliverPath(t)

\* A thread that can take a step is scheduled.
SpecDeliverFair == SpecDeliver /\ \A t \in Threads : WF_vars(ThreadNext(t))


\* ------------------------------------------------------------------------
\* Email::process with its pipes: the parent writes self.data to the stdin
\* pipe of the child and then reads the stdout pipe to its end, while the
\* child runs.  A pipe holds a bounded number of bytes: a write to a full
\* pipe waits, a read of an empty pipe waits while the other end is open.
\* ------------------------------------------------------------------------
\* 'hi\n' repeated: emails of 0, 3, 6, 9 and 12 bytes.
ProcessInputs == {Concat([i \in 1..n |-> L_TEXT]) : n \in 0..4}
\* The bytes a pipe holds and the bytes the child reads at once, scaled down.
PipeCapacity == 2
ChildBuffer == 1

\* The Email has been built by from_vec.
ProcessInitEmail(e) ==
    /\ phase = "constructed"
    /\ email = Some(e)
    /\ parser = ParserNew
    /\ normalized = e.normalized_data
    /\ fields = e.fields
    /\ elements = <<>>
    /\ panic = ""

ProcessInit ==
    /\ input \in ProcessInputs
    /\ ProcessInitEmail(from_vec(input)[1])
    /\ DeliverInit
    /\ decode = None

Smaller(a, b) == IF a <= b THEN a ELSE b

\* Command::new(cmd[0]).stdin(Stdio::piped()).stdout(Stdio::piped()).spawn()?
\* The parent goes on to write_all; sent counts the bytes of self.data it
\* wrote, buf is what the child read and has not written yet, got what the
\* parent read of the child's standard output.
ProcSpawn(cmd) ==
    /\ phase = "constructed"
    /\ child = None
    /\ budget.calls > 0
    /\ child_run(cmd, <<>>) # None
    /\ child' = Some([cmd |-> cmd, pc |-> "write_all", sent |-> 0, stdin |-> <<>>,
                      stdin_open |-> TRUE, buf |-> <<>>, stdout |-> <<>>, got |-> <<>>,
                      running |-> TRUE, status |-> 0])
    /\ budget' = Spend("calls")
    /\ UNCHANGED <<email, clock, gen, mutex, issued, calls, lock, inodes, fs, threads, output,
                   filtered>>
    /\ UNCHANGED <<nvars, decode>>

\* spawn fails: process returns the error.
ProcSpawnFail(cmd) ==
    /\ phase = "constructed"
    /\ child = None
    /\ budget.calls > 0
    /\ child_run(cmd, <<>>) = None
    /\ budget' = Spend("calls")
    /\ UNCHANGED <<email, clock, gen, mutex, issued, calls, lock, inodes, fs, threads, output,
                   filtered, child>>
    /\ UNCHANGED <<nvars, decode>>

\* child.stdin.write_all(&self.data): one write of the loop, which waits
\* while the pipe is full, or the return of write_all when all is written.
ProcWriteAll ==
    /\ child # None
    /\ child[1].pc = "write_all"
    /\ child[1].running
    /\ IF child[1].sent = Len(deliver_data(email[1]))
       THEN child' = Some([child[1] EXCEPT !.pc = "wait_with_output"])
       ELSE /\ Len(child[1].stdin) < PipeCapacity
            /\ \E k \in 1..Smaller(PipeCapacity - Len(child[1].stdin),
                                   Len(deliver_data(email[1])) - child[1].sent) :
                  child' = Some([child[1] EXCEPT
                                    !.sent = @ + k,
                                    !.stdin = @ \o SubSeq(deliver_data(email[1]),
                                                          child[1].sent + 1, child[1].sent + k)])
    /\ UNCHANGED <<email, clock, gen, mutex, issued, calls, lock, inodes, fs, threads, output,
                   filtered, budget>>
    /\ UNCHANGED <<nvars, decode>>

\* The child has exited, the read end of the pipe is closed: a write fails
\* with EPIPE and process returns the error; write_all of nothing returns Ok.
ProcWriteBroken ==
    /\ child # None
    /\ child[1].pc = "write_all"
    /\ ~child[1].running
    /\ child' = IF child[1].sent = Len(deliver_data(email[1]))
                THEN Some([child[1] EXCEPT !.pc = "wait_with_output"])
                ELSE None
    /\ UNCHANGED <<email, clock, gen, mutex, issued, calls, lock, inodes, fs, threads, output,
                   filtered, budget>>
    /\ UNCHANGED <<nvars, decode>>

\* child.wait_with_output(): drop(self.stdin.take()) closes the pipe.
ProcCloseStdin ==
    /\ child # None
    /\ child[1].pc = "wait_with_output"
    /\ child' = Some([child[1] EXCEPT !.pc = "read_to_end", !.stdin_open = FALSE])
    /\ UNCHANGED <<email, clock, gen, mutex, issued, calls, lock, inodes, fs, threads, output,
                   filtered, budget>>
    /\ UNCHANGED <<nvars, decode>>

\* wait_with_output reads the standard output of the child to its end.
ProcRead ==
    /\ child # None
    /\ child[1].pc = "read_to_end"
    /\ child[1].stdout # <<>>
    /\ \E k \in 1..Len(child[1].stdout) :
          child' = Some([child[1] EXCEPT !.got = @ \o SubSeq(child[1].stdout, 1, k),
                                         !.stdout = From(@, k)])
    /\ UNCHANGED <<email, clock, gen, mutex, issued, calls, lock, inodes, fs, threads, output,
                   filtered, budget>>
    /\ UNCHANGED <<nvars, decode>>

\* End of file on the pipe of the child that exited: Ok(Output).
ProcReturn ==
    /\ child # None
    /\ child[1].pc = "read_to_end"
    /\ child[1].stdout = <<>>
    /\ ~child[1].running
    /\ output' = Some([status |-> child[1].status, stdout |-> child[1].got])
    /\ child' = None
    /\ UNCHANGED <<email, clock, gen, mutex, issued, calls, lock, inodes, fs, threads, filtered,
                   budget>>
    /\ UNCHANGED <<nvars, decode>>

\* The child cat: read(0, buf), write(1, buf), until end of file.
CatRead ==
    /\ child # None
    /\ child[1].running
    /\ child[1].cmd = "cat"
    /\ child[1].buf = <<>>
    /\ child[1].stdin # <<>>
    /\ \E k \in 1..Smaller(ChildBuffer, Len(child[1].stdin)) :
          child' = Some([child[1] EXCEPT !.buf = SubSeq(child[1].stdin, 1, k),
                                         !.stdin = From(@, k)])
    /\ UNCHANGED <<email, clock, gen, mutex, issued, calls, lock, inodes, fs, threads, output,
                   filtered, budget>>
    /\ UNCHANGED <<nvars, decode>>

CatWrite ==
    /\ child # None
    /\ child[1].running
    /\ child[1].cmd = "cat"
    /\ child[1].buf # <<>>
    /\ Len(child[1].stdout) < PipeCapacity
    /\ \E k \in 1..Smaller(PipeCapacity - Len(child[1].stdout), Len(child[1].buf)) :
          child' = Some([child[1] EXCEPT !.stdout = @ \o SubSeq(child[1].buf, 1, k),
                                         !.buf = From(@, k)])
    /\ UNCHANGED <<email, clock, gen, mutex, issued, calls, lock, inodes, fs, threads, output,
                   filtered, budget>>
    /\ UNCHANGED <<nvars, decode>>

\* cat reads end of file and exits with status 0.
CatExit ==
    /\ child # None
    /\ child[1].running
    /\ child[1].cmd = "cat"
    /\ child[1].buf = <<>>
    /\ child[1].stdin = <<>>
    /\ ~child[1].stdin_open
    /\ child' = Some([child[1] EXCEPT !.running = FALSE, !.status = 0])
    /\ UNCHANGED <<email, clock, gen, mutex, issued, calls, lock, inodes, fs, threads, output,
                   filtered, budget>>
    /\ UNCHANGED <<nvars, decode>>

\* The child false exits with status 1 and reads nothing.
FalseExit ==
    /\ child # None
    /\ child[1].running
    /\ child[1].cmd = "false"
    /\ child' = Some([child[1] EXCEPT !.running = FALSE, !.status = 1, !.stdin = <<>>])
    /\ UNCHANGED <<email, clock, gen, mutex, issued, calls, lock, inodes, fs, threads, output,
                   filtered, budget>>
    /\ UNCHANGED <<nvars, decode>>

ParentNext ==
    \/ \E cmd \in Commands : ProcSpawn(cmd)
    \/ \E cmd \in Commands : ProcSpawnFail(cmd)
    \/ ProcWriteAll
    \/ ProcWriteBroken
    \/ ProcCloseStdin
    \/ ProcRead
    \/ ProcReturn

ChildNext ==
    \/ CatRead
    \/ CatWrite
    \/ CatExit
    \/ FalseExit

SpecProcess == ProcessInit /\ [][ParentNext \/ ChildNext]_vars

\* The scheduler runs a process that can take a step.
SpecProcessFair == SpecProcess /\ WF_vars(ParentNext) /\ WF_vars(ChildNext)

\* ------------------------------------------------------------------------
\* The generator by itself: EmailFilenameGenerator::new, then calls of
\* next() by one caller at any seconds.
\* ------------------------------------------------------------------------
GeneratorInit ==
    /\ input = <<>>
    /\ StartState
    /\ decode = None

GeneratorNextName(unix_time, r) ==
    /\ clock' = unix_time
    /\ gen' = r.gen
    /\ issued' = Append(issued, [t |-> "t1", unix_time |-> unix_time, name |-> r.name])

GeneratorNext ==
    /\ Len(issued) < MaxNames
    /\ \E unix_time \in 1..MaxClock :
          GeneratorNextName(unix_time, EmailFilenameGeneratorNext(gen, unix_time))
    /\ UNCHANGED <<email, mutex, calls, lock, inodes, fs, threads, output, filtered, child, budget>>
    /\ UNCHANGED <<nvars, decode>>

SpecGenerator == GeneratorInit /\ [][GeneratorNext]_vars

\* ------------------------------------------------------------------------
\* A decoder by itself: base64_decode_into_buf called on an input and a
\* buffer.  The inputs are canonical encodings of byte runs, their padded
\* form of RFC 4648, and the same cut short or with one pad too many.
\* ------------------------------------------------------------------------
\* The bytes of the runs: their sextets meet the five ranges of the alphabet.
RunBytes == {0, 97, 251, 255}
MaxRun == 4
Runs == UNION {[1..n -> RunBytes] : n \in 0..MaxRun}

\* The base64 alphabet of RFC 4648, by value.
base64_symbol(v) ==
    IF v < 26 THEN 65 + v
    ELSE IF v < 52 THEN 97 + (v - 26)
    ELSE IF v < 62 THEN 48 + (v - 52)
    ELSE IF v = 62 THEN 43
    ELSE 47

\* The canonical encoding of a byte run, with its padding.
RECURSIVE base64_encode(_)
base64_encode(R) ==
    IF Len(R) = 0 THEN <<>>
    ELSE IF Len(R) = 1
    THEN <<base64_symbol(R[1] \div 4), base64_symbol((R[1] % 4) * 16), EQ, EQ>>
    ELSE IF Len(R) = 2
    THEN <<base64_symbol(R[1] \div 4), base64_symbol((R[1] % 4) * 16 + R[2] \div 16),
           base64_symbol((R[2] % 16) * 4), EQ>>
    ELSE <<base64_symbol(R[1] \div 4), base64_symbol((R[1] % 4) * 16 + R[2] \div 16),
           base64_symbol((R[2] % 16) * 4 + R[3] \div 64), base64_symbol(R[3] % 64)>>
         \o base64_encode(SubSeq(R, 4, Len(R)))

Canonical == {base64_encode(R) : R \in Runs}
CutShort == {SubSeq(e, 1, Len(e) - 1) : e \in Canonical \ {<<>>}}
Overpadded == {Append(e, EQ) : e \in Canonical}
\* The inputs of the tests of decode.rs: "YWJj====", "YWJjZ===", "====",
\* "YWJjZA=", "YWJjZA=a", "YWJjZA==b=" and " Y\t WJ\njZA=\r\n = ".
Base64Tests ==
    {<<89, 87, 74, 106, EQ, EQ, EQ, EQ>>, <<89, 87, 74, 106, 90, EQ, EQ, EQ>>,
     <<EQ, EQ, EQ, EQ>>, <<89, 87, 74, 106, 90, 65, EQ>>,
     <<89, 87, 74, 106, 90, 65, EQ, 97>>, <<89, 87, 74, 106, 90, 65, EQ, EQ, 98, EQ>>,
     <<SP, 89, HT, SP, 87, 74, LF, 106, 90, 65, EQ, CR, LF, SP, EQ, SP>>}
\* Every string of up to MaxSymbols bytes over an alphabet symbol, the pad
\* character and a byte outside the alphabet.
MaxSymbols == 6
SymbolStrings == UNION {[1..n -> {89, EQ, SP}] : n \in 0..MaxSymbols}
DecodeInputs == Canonical \cup CutShort \cup Overpadded \cup Base64Tests \cup SymbolStrings
\* The inputs of qp_decode_into_buf: every string of up to MaxQp bytes over
\* '=', a digit, a lower-case and an upper-case hex digit, a letter that is
\* no hex digit, CR and LF.
MaxQp == 4
\* The inputs of the tests of the decoder: "a=62c=64", "a=\r\nb=\nc", "a=6t= c=".
QpTests ==
    { <<97, EQ, 54, 50, 99, EQ, 54, 52>>,
      <<97, EQ, CR, LF, 98, EQ, LF, 99>>,
      <<97, EQ, 54, 116, EQ, SP, 99, EQ>> }
QpInputs == QpTests \cup UNION {[1..n -> {EQ, 54, 98, 70, 116, CR, LF}] : n \in 0..MaxQp}
\* The buffers of the calls: empty, or holding bytes already.
DecodeBuffers == {<<>>, <<SP, 97>>}

DecodeInit ==
    /\ input = <<>>
    /\ StartState
    /\ \/ \E i \in DecodeInputs, b \in DecodeBuffers :
             decode = Some([decoder |-> "base64", input |-> i, before |-> b, ret |-> None])
       \/ \E i \in QpInputs, b \in DecodeBuffers :
             decode = Some([decoder |-> "qp", input |-> i, before |-> b, ret |-> None])

Base64Decode ==
    /\ decode # None
    /\ decode[1].decoder = "base64"
    /\ decode[1].ret = None
    /\ decode' = Some([decode[1] EXCEPT
                          !.ret = Some(base64_decode_into_buf(decode[1].input,
                                                              decode[1].before))])
    /\ UNCHANGED <<email, dvars>>
    /\ UNCHANGED nvars

QpDecode ==
    /\ decode # None
    /\ decode[1].decoder = "qp"
    /\ decode[1].ret = None
    /\ decode' = Some([decode[1] EXCEPT
                          !.ret = Some(qp_decode_into_buf(decode[1].input, decode[1].before))])
    /\ UNCHANGED <<email, dvars>>
    /\ UNCHANGED nvars

SpecDecode == DecodeInit /\ [][Base64Decode \/ QpDecode]_vars

\* ------------------------------------------------------------------------
\* Properties of the parser and the normalizer (specification Spec)
\* ------------------------------------------------------------------------
\* The bytes normalize_email appended for the k-th element of the history.
AppendedEnd(k) == IF k < Len(elements) THEN elements[k + 1].at ELSE Len(normalized)
Appended(k) == SubSeq(normalized, elements[k].at + 1, AppendedEnd(k))

\* The element of a history entry is a Verbatim for a boundary line: a
\* Verbatim returned by a call of next() that started in body phase.
BoundaryEntry(e) == e.el.kind = "Verbatim" /\ ~e.before.in_header
ClosingEntry(e) == BoundaryEntry(e) /\ ends_with(slice_trim_end_newline(e.el.data), <<DASH, DASH>>)
OpeningEntry(e) == BoundaryEntry(e) /\ ~ends_with(slice_trim_end_newline(e.el.data), <<DASH, DASH>>)

\* The child boundary of the top-most Part of the stack that has one, the
\* empty string when no Part has one.
RECURSIVE Nearest(_)
Nearest(stack) ==
    IF stack = <<>> THEN <<>>
    ELSE IF stack[Len(stack)].subpart_boundary # None THEN stack[Len(stack)].subpart_boundary[1]
    ELSE Nearest(SubSeq(stack, 1, Len(stack) - 1))

\* Some line of the bytes d is a boundary line of the boundary b.
HasBoundaryLine(d, b) ==
    \E i \in 1..Len(d) : (i = 1 \/ d[i - 1] = LF) /\ is_boundary_line(From(d, i - 1), b)

\* C1: Email::from_vec returns for every input: no call of the parser
\* panics, in particular not when an opening boundary line follows the
\* closing boundary line of the same boundary.
C1_FromVecNeverPanics == phase # "panicked"

\* C1, the case: the closing boundary line of the boundary the root part
\* declares has been returned and the part stack is empty after it.
C1_ClosedThenOpened ==
    /\ phase = "normalizing"
    /\ elements # <<>>
    /\ ClosingEntry(elements[Len(elements)])
    /\ parser.part_stack = <<>>
    /\ parser.active_boundary # <<>>

\* C2: in body phase only the lines "--B" and "--B--" of the active boundary
\* B are boundary lines: a line that goes on after "--B" with bytes other
\* than the closing "--" is body, so it is never returned as a Verbatim
\* element and never changes the part stack or the in-header flag.
C2_OnlyExactBoundaryLines ==
    \A k \in 1..Len(elements) :
       BoundaryEntry(elements[k]) =>
          slice_trim_end_newline(elements[k].el.data) \in
             {<<DASH, DASH>> \o elements[k].before.active_boundary,
              <<DASH, DASH>> \o elements[k].before.active_boundary \o <<DASH, DASH>>}

\* C2, the case: a line "--Bj" met in body phase while B is active has been
\* consumed by the parser.
C2_LongerLineMet ==
    /\ elements # <<>>
    /\ elements[Len(elements)].before.active_boundary = <<65>>
    /\ ~elements[Len(elements)].before.in_header
    /\ HasBoundaryLine(elements[Len(elements)].el.data, <<65, 106>>)

\* C3: a closing boundary line pops the top Part and makes active the child
\* boundary of the top-most remaining Part that has one, the empty string
\* when no remaining Part has one.
C3_ClosingRestoresNearest ==
    \A k \in 1..Len(elements) :
       ClosingEntry(elements[k]) =>
          /\ elements[k].before.part_stack # <<>> =>
                Len(elements[k].after.part_stack) + 1 = Len(elements[k].before.part_stack)
          /\ elements[k].after.active_boundary = Nearest(elements[k].after.part_stack)

\* C3, the case: the closing boundary line of a multipart nested in two
\* others has been returned.
C3_InnerClosed ==
    \E k \in 1..Len(elements) :
       /\ ClosingEntry(elements[k])
       /\ Len(elements[k].after.part_stack) >= 3
       /\ Nearest(elements[k].after.part_stack) # <<>>

\* C4: every Body element carries the attributes of the part that contains
\* it: an opening or sibling boundary line starts a Part with nothing set,
\* a run of body lines is one Body element with the attributes of the top
\* Part, and it ends at the next boundary line of the enclosing multipart,
\* so none of its lines is such a boundary line.
C4_BodyOfItsPart ==
    \A k \in 1..Len(elements) :
       /\ OpeningEntry(elements[k]) =>
             StackLast(elements[k].after.part_stack) = Some(PartNew)
       /\ elements[k].el.kind = "Body" =>
             /\ elements[k].el.encoding = active_encoding(elements[k].after)
             /\ elements[k].el.content_type = active_content_type(elements[k].after)
             /\ elements[k].el.charset = active_charset(elements[k].after)
             /\ k < Len(elements) => elements[k + 1].el.kind # "Body"
             /\ ~HasBoundaryLine(elements[k].el.data, Nearest(elements[k].after.part_stack))

\* C4, the case: a Body element of a part nested in a multipart has been
\* returned, the part having declared a transfer encoding.
C4_NestedBody ==
    \E k \in 1..Len(elements) :
       /\ elements[k].el.kind = "Body"
       /\ elements[k].el.encoding # None
       /\ Len(elements[k].after.part_stack) >= 2

\* C5: in the normalized data every boundary line starts a line: the byte
\* before it is a line feed (or it is the first byte), whatever the body
\* before it decoded to.
C5_BoundaryStartsLine ==
    \A k \in 1..Len(elements) :
       BoundaryEntry(elements[k]) =>
          elements[k].at = 0 \/ normalized[elements[k].at] = LF

\* C5, the case: a boundary line follows a base64 text body whose decoded
\* bytes do not end with a line feed.
C5_BoundaryAfterDecodedBody ==
    \E k \in 2..Len(elements) :
       /\ BoundaryEntry(elements[k])
       /\ elements[k - 1].el.kind = "Body"
       /\ elements[k - 1].el.encoding = Some(ENC_BASE64)
       /\ Appended(k - 1) # elements[k - 1].el.data
       /\ Appended(k - 1) # <<>>
       /\ Appended(k - 1)[Len(Appended(k - 1))] # LF

\* A Body element whose part declares a content type other than text/*.
NonText(el) ==
    el.kind = "Body" /\ el.content_type # None /\ ~starts_with(el.content_type[1], TEXT_SLASH)
TextBody(el) == el.kind = "Body" /\ ~NonText(el)

\* C6: a Body element whose part declares a content type that does not
\* start with "text/" is appended to the normalized buffer unchanged,
\* whatever its transfer encoding and charset.
C6_NonTextUnchanged ==
    \A k \in 1..Len(elements) :
       NonText(elements[k].el) => Appended(k) = elements[k].el.data

\* C6, the case: a non-text body that declares base64 and is valid base64
\* has been appended.
C6_NonTextBase64 ==
    \E k \in 1..Len(elements) :
       /\ NonText(elements[k].el)
       /\ elements[k].el.encoding = Some(ENC_BASE64)
       /\ base64_decode_into_buf(elements[k].el.data, <<>>).ok
       /\ base64_decode_into_buf(elements[k].el.data, <<>>).out # <<>>

\* What C7 states a text body becomes: the charset conversion of the
\* decoded bytes (base64, quoted-printable) or of the bytes themselves
\* (8bit, binary, no encoding); the raw bytes when the decoder fails or the
\* encoding is another one.
C7_conv(bytes, conv) == IF conv # None THEN conv[1] ELSE bytes
C7_convert(charset, bytes) ==
    C7_conv(bytes, charset_decode(IF charset # None THEN charset[1] ELSE US_ASCII, bytes))
C7_decoded(el, r) == IF r.ok THEN C7_convert(el.charset, r.out) ELSE el.data
C7_expected(el) ==
    IF el.encoding = None THEN C7_convert(el.charset, el.data)
    ELSE IF el.encoding[1] \in {ENC_8BIT, ENC_BINARY} THEN C7_convert(el.charset, el.data)
    ELSE IF el.encoding[1] = ENC_BASE64 THEN C7_decoded(el, base64_decode_into_buf(el.data, <<>>))
    ELSE IF el.encoding[1] = ENC_QP THEN C7_decoded(el, qp_decode_into_buf(el.data, <<>>))
    ELSE el.data

\* C7: a text body (content type unset or text/*) is decoded when its
\* encoding is base64 or quoted-printable and copied through when it is
\* 8bit, binary or unset; when the base64 decoder fails or the encoding is
\* another value the normalized buffer gets exactly the raw bytes, without
\* charset conversion.
C7_TextBodyDecoded ==
    \A k \in 1..Len(elements) :
       TextBody(elements[k].el) => Appended(k) = C7_expected(elements[k].el)

\* C7, the case: a text body whose declared decoder succeeds with no output
\* has been appended.
C7_EmptyDecode ==
    \E k \in 1..Len(elements) :
       /\ TextBody(elements[k].el)
       /\ elements[k].el.encoding = Some(ENC_QP)
       /\ elements[k].el.data # <<>>
       /\ qp_decode_into_buf(elements[k].el.data, <<>>).out = <<>>

\* C8: 0 <= body_index <= len(data), header is data[0, body_index) and body
\* is data[body_index, len), so header ++ body = data, and body_index is the
\* index of the first line feed of the normalized buffer that a line feed
\* or a carriage return follows, the length of the buffer when there is none.
C8_split(e, d, n) ==
    /\ d = normalized
    /\ 0 <= n /\ n <= Len(d)
    /\ header(e) = SubSeq(d, 1, n)
    /\ body(e) = SubSeq(d, n + 1, Len(d))
    /\ header(e) \o body(e) = d
    /\ \A i \in 1..n : ~(d[i] = LF /\ i + 1 <= Len(d) /\ d[i + 1] \in {LF, CR})
    /\ n < Len(d) => (d[n + 1] = LF /\ n + 2 <= Len(d) /\ d[n + 2] \in {LF, CR})

C8_BodySplit ==
    phase = "constructed" => C8_split(email[1], data(email[1]), email[1].body_index)

\* C8, the case: an Email whose blank line is "\r\n" has been built, header
\* and body both non-empty.
C8_SplitAtCrLf ==
    /\ phase = "constructed"
    /\ header(email[1]) # <<>>
    /\ body(email[1]) # <<>>
    /\ Len(body(email[1])) >= 2
    /\ body(email[1])[2] = CR

\* ------------------------------------------------------------------------
\* Properties of the Email and of the delivery (specification SpecDeliver)
\* ------------------------------------------------------------------------
\* C9: raw_data() is the bytes from_vec was given, and it stays so through
\* every lookup, set_delivery_durability, deliver_to_maildir, process and
\* filter call on the Email.
C9_RawDataIsInput ==
    phase = "constructed" => raw_data(email[1]) = input

\* C9, the case: an Email whose normalized bytes differ from the raw ones
\* has been delivered, filtered and given another durability.
C9_AfterTheCalls ==
    /\ phase = "constructed"
    /\ data(email[1]) # input
    /\ has_been_delivered(email[1])
    /\ email[1].delivery_durability = FileSyncOnly
    /\ filtered # None
    /\ \A t \in Threads : threads[t].pc = "idle"

\* C10: at every step of a delivery and after every error exit, each file
\* the Email put in a new/ holds exactly the raw bytes of the Email, all of
\* them: a name comes into new/ only as a hard link to a file that was
\* written to its end before.
C10_NewHoldsRawBytes ==
    \A m \in Maildirs : \A e \in fs[m].new :
       inodes[e.ino].by = "email" => inodes[e.ino].content = input

\* C10, the case: one delivery has put its file in new/ and returned an
\* error after it, while another is in the middle of writing its file.
C10_LinkedErrorAndHalfWritten ==
    /\ phase = "constructed"
    /\ data(email[1]) # input
    /\ \E m \in Maildirs : \E e \in fs[m].new : inodes[e.ino].by = "email"
    /\ \E t \in Threads : threads[t].ret # None /\ ~threads[t].ret[1].ok
    /\ \E t \in Threads :
          /\ threads[t].pc = "dl_write"
          /\ inodes[threads[t].ino].content # <<>>
          /\ inodes[threads[t].ino].content # input


\* ------------------------------------------------------------------------
\* Delivery: what a call did, read from the history of its system calls.
\* ------------------------------------------------------------------------
\* The results of the system calls: AlreadyExists, the other errors, and
\* the hard links made into new/.
CollisionEvents == {"hl_link_exists", "create_exists", "link_exists"}
ErrorEvents == {"create_dir_all_err", "hl_link_err", "hl_sync_new_err", "create_err",
                "write_all_err", "link_err", "remove_err", "sync_new_err", "sync_tmp_err"}
LinkedEvents == {"hl_link_ok", "link_ok"}
Has(log, evs) == \E i \in 1..Len(log) : log[i] \in evs
Count(log, evs) == Cardinality({i \in 1..Len(log) : log[i] \in evs})
\* The threads whose last call has returned.
ReturnedThreads == {t \in Threads : threads[t].ret # None}
\* A call that met AlreadyExists and no other error.
OnlyCollisions(r) == Has(r.log, CollisionEvents) /\ ~Has(r.log, ErrorEvents)
\* The entries of new/ stay, and so do the bytes of their files.
NewKept(m) ==
    /\ fs[m].new \subseteq fs'[m].new
    /\ \A e \in fs[m].new : inodes'[e.ino] = inodes[e.ino]

C11_Retried ==
    \A t \in ReturnedThreads :
       OnlyCollisions(threads[t].ret[1]) =>
          /\ threads[t].ret[1].ok
          /\ Count(threads[t].ret[1].log, LinkedEvents) = 1
          /\ NewFile(threads[t].ret[1].m, threads[t].ret[1].name) # None
          /\ NewFile(threads[t].ret[1].m, threads[t].ret[1].name)[1].content = input

\* C11: a call of deliver_to_maildir that meets AlreadyExists, on the
\* exclusive create in tmp/ or on a hard link into new/, and no other error
\* returns Ok under a name generated afterwards, having made exactly one
\* link into new/, which names a file with the bytes of the email; and no
\* step of any delivery removes an entry of new/ or changes the bytes of a
\* file that new/ names.
C11_CollisionRetriesAndKeeps ==
    [](C11_Retried) /\ [][\A m \in Maildirs : NewKept(m)]_vars

\* A delivery met the name of another program's file in new/, returned Ok,
\* and both files are in new/.
C11_CollidedInNew ==
    \E t \in ReturnedThreads :
       /\ threads[t].ret[1].ok
       /\ Has(threads[t].ret[1].log, {"link_exists", "hl_link_exists"})
       /\ \E e \in fs[threads[t].ret[1].m].new : inodes[e.ino].by = "foreign"


\* The files of other programs in a maildir, and the entries of a directory
\* that name one of the files in a set.
ForeignIn(m) == {e \in fs[m].tmp \cup fs[m].new : inodes[e.ino].by = "foreign"}
EntriesOf(dir, inos) == {e \in dir : e.ino \in inos}
\* The call that returned r was the only one on its maildir, which no other
\* program has touched.
OnlyCallOn(r) == calls[r.m] = 1 /\ ForeignIn(r.m) = {}

C12_Structure(r) ==
    /\ fs[r.m].dirs = SubDirs
    /\ Cardinality(fs[r.m].new) = 1
    /\ fs[r.m].tmp = {}
    /\ fs[r.m].cur = {}

\* C12: when a call of deliver_to_maildir has returned Ok and was the only
\* delivery to its directory, which held no maildir before, the directory
\* holds exactly tmp, new and cur, new/ has exactly one entry, and tmp/ and
\* cur/ are empty; any call that returned Ok has left none of the files it
\* created in tmp/, and cur/ is never written.
C12_FreshMaildirAfterOk ==
    /\ \A t \in ReturnedThreads :
          threads[t].ret[1].ok =>
             /\ OnlyCallOn(threads[t].ret[1]) => C12_Structure(threads[t].ret[1])
             /\ EntriesOf(fs[threads[t].ret[1].m].tmp, threads[t].ret[1].made) = {}
    /\ \A m \in Maildirs : fs[m].cur = {}

\* The case of the tests: the first delivery of an Email, to a fresh
\* directory, has returned Ok and left the three directories and one file.
C12_FirstDelivery ==
    \E t \in ReturnedThreads :
       /\ threads[t].ret[1].ok
       /\ OnlyCallOn(threads[t].ret[1])
       /\ threads[t].ret[1].m = "m1"
       /\ C12_Structure(threads[t].ret[1])

\* A second maildir, fresh, after a delivery whose hard link was made and
\* whose Maildir::deliver ran all the same: two entries for one call.
C12_TwoEntriesForOneCall ==
    \E t \in ReturnedThreads :
       /\ threads[t].ret[1].ok
       /\ OnlyCallOn(threads[t].ret[1])
       /\ Cardinality(fs[threads[t].ret[1].m].new) = 2


\* The threads between the create of a file in tmp/ and its remove_file.
Between(t) == threads[t].pc \in {"dl_write", "dl_link", "dl_remove"}

\* C13: once a call has returned, with Ok or with an error, none of the
\* files it created is left in tmp/; a file of the Email is in tmp/ only
\* while a thread is between its create and its remove_file.
C13_NoTmpFileAfterReturn ==
    /\ \A t \in ReturnedThreads :
          EntriesOf(fs[threads[t].ret[1].m].tmp, threads[t].ret[1].made) = {}
    /\ \A m \in Maildirs : \A e \in fs[m].tmp :
          inodes[e.ino].by = "email" =>
             \E t \in Threads : Between(t) /\ threads[t].m = m /\ threads[t].ino = e.ino

\* write_all failed: the call has returned an error and its file, short of
\* the data, is in tmp/.
C13_TmpFileAfterWriteError ==
    \E t \in ReturnedThreads :
       /\ ~threads[t].ret[1].ok
       /\ Has(threads[t].ret[1].log, {"write_all_err"})
       /\ EntriesOf(fs[threads[t].ret[1].m].tmp, threads[t].ret[1].made) # {}


\* The step is the return of a call of thread t.
Returns(t) == threads[t].pc # "idle" /\ threads'[t].pc = "idle"
\* The path a call returned, as deliver_path holds it.
PathOf(r) == Some([m |-> r.m, name |-> r.name])

C14_Step ==
    /\ (email = None /\ email' # None) => ~has_been_delivered(email'[1])
    /\ (email # None /\ email' # None) =>
          /\ has_been_delivered(email[1]) => has_been_delivered(email'[1])
          /\ email'[1].deliver_path # email[1].deliver_path =>
                \E t \in Threads :
                   /\ Returns(t)
                   /\ threads'[t].ret[1].ok
                   /\ email'[1].deliver_path = PathOf(threads'[t].ret[1])
          /\ \A t \in Threads :
                (Returns(t) /\ ~threads'[t].ret[1].ok) =>
                   email'[1].deliver_path = email[1].deliver_path

\* C14: the Email is constructed with no recorded path; the recorded path
\* changes only in a step in which a call of deliver_to_maildir returns Ok,
\* and then to the path returned; a call that returns an error leaves it as
\* it was; once a path is recorded one stays recorded, and it is recorded
\* whenever a call has returned Ok.
C14_PathChangesOnlyOnOk ==
    /\ [][C14_Step]_vars
    /\ [](\A t \in ReturnedThreads :
             threads[t].ret[1].ok => has_been_delivered(email[1]))

\* After a delivery that recorded its path, a second call has returned an
\* error, from a sync that failed after its link was made.
C14_ErrorAfterDelivered ==
    \E t \in ReturnedThreads :
       /\ ~threads[t].ret[1].ok
       /\ Has(threads[t].ret[1].log, {"sync_new_err", "sync_tmp_err"})
       /\ has_been_delivered(email[1])


\* The system calls of deliver_with_hard_link and its errors.
HardLinkEvents == {"hl_link_ok", "hl_link_exists", "hl_link_err", "hl_sync_new_ok",
                   "hl_sync_new_err"}
HardLinkErrors == {"hl_link_err", "hl_sync_new_err"}
\* The places of a thread inside Maildir::deliver from which its loop goes
\* back to the generator.
InDeliverLoop(t) == threads[t].pc \in {"dl_create", "dl_remove"}
\* The call returned from deliver_with_hard_link.
ByHardLink(r) == r.log[Len(r.log)] \in {"hl_link_ok", "hl_sync_new_ok"}

\* The step in which a call has read deliver_path, and the steps in which
\* it enters Maildir::deliver.
C15_Step(t) ==
    /\ (threads[t].pc = "read_path" /\ threads'[t].pc # "read_path") =>
          IF has_been_delivered(email[1])
          THEN threads'[t].pc = "hl_gen" /\ threads'[t].src = email[1].deliver_path
          ELSE threads'[t].pc = "dl_gen"
    /\ (threads'[t].pc = "dl_gen" /\ threads[t].pc # "dl_gen" /\ ~InDeliverLoop(t)) =>
          \/ threads[t].pc = "read_path" /\ ~has_been_delivered(email[1])
          \/ /\ threads[t].pc \in {"hl_link", "hl_sync"}
             /\ threads'[t].log[Len(threads'[t].log)] \in HardLinkErrors

\* In the history of a call the system calls of deliver_with_hard_link come
\* first, and those of Maildir::deliver follow an error of it or nothing.
C15_Order(log) ==
    \A j \in 1..Len(log) :
       log[j] \notin HardLinkEvents =>
          /\ \A k \in j..Len(log) : log[k] \notin HardLinkEvents
          /\ j > 1 => (log[j - 1] \notin HardLinkEvents \/ log[j - 1] \in HardLinkErrors)

C15_Linked(r) ==
    /\ r.made = {}
    /\ r.src # None
    /\ HasName(fs[r.m].new, r.name)
    /\ HasName(fs[r.src[1].m].new, r.src[1].name)
    /\ InoOf(fs[r.m].new, r.name) = InoOf(fs[r.src[1].m].new, r.src[1].name)

\* C15: a call of deliver_to_maildir that finds a recorded path goes to
\* deliver_with_hard_link from that path, and one that finds none goes to
\* Maildir::deliver; Maildir::deliver is entered only from there or after
\* an error of deliver_with_hard_link; and a call that returned Ok from
\* deliver_with_hard_link created no file: its entry names the file of the
\* recorded path.
C15_HardLinkFirst ==
    /\ [][\A t \in Threads : C15_Step(t)]_vars
    /\ [](\A t \in Threads : C15_Order(threads[t].log))
    /\ [](\A t \in ReturnedThreads :
             /\ C15_Order(threads[t].ret[1].log)
             /\ (threads[t].ret[1].ok /\ ByHardLink(threads[t].ret[1])) =>
                   C15_Linked(threads[t].ret[1]))

\* The second delivery, to another maildir, returned Ok from
\* deliver_with_hard_link: one file, two names.
C15_LinkedIntoSecondMaildir ==
    \E t \in ReturnedThreads :
       /\ threads[t].ret[1].ok
       /\ ByHardLink(threads[t].ret[1])
       /\ threads[t].ret[1].m = "m2"
       /\ threads[t].ret[1].src[1].m = "m1"
       /\ Len(inodes) = 1


\* The directory syncs, and the last n system calls of a history.
SyncEvents == {"hl_sync_new_ok", "hl_sync_new_err", "sync_new_ok", "sync_new_err",
               "sync_tmp_ok", "sync_tmp_err"}
LastEvents(log, n) == IF Len(log) >= n THEN SubSeq(log, Len(log) - n + 1, Len(log)) ELSE <<>>

\* What a call that returned Ok did last, by its durability.
C16_Returned(r) ==
    IF r.durability = FileSyncOnly
    THEN ~Has(r.log, SyncEvents)
    ELSE IF ByHardLink(r)
    THEN LastEvents(r.log, 2) = <<"hl_link_ok", "hl_sync_new_ok">>
    ELSE LastEvents(r.log, 5) = <<"link_ok", "remove_ok", "sync_new_ok", "sync_tmp_ok", "record">>

\* Every hard link of Maildir::deliver follows the create and the complete
\* write of its file.
C16_Written(log) ==
    \A j \in 1..Len(log) :
       log[j] \in {"link_ok", "link_exists", "link_err"} =>
          j >= 3 /\ log[j - 1] = "write_all_ok" /\ log[j - 2] = "create_ok"

\* C16: a call that returned Ok under FileAndDirSync ended with the hard
\* link into new/, the removal of the tmp file, the sync of new/ and then
\* that of tmp/ when it returned from Maildir::deliver, and with the hard
\* link and the sync of new/ when it returned from deliver_with_hard_link;
\* under FileSyncOnly no call syncs a directory; and in both modes a file
\* of the Email is opened with O_SYNC and holds all the bytes before
\* Maildir::deliver links it into new/.
C16_SyncedBeforeOk ==
    /\ \A t \in ReturnedThreads :
          /\ threads[t].ret[1].ok => C16_Returned(threads[t].ret[1])
          /\ threads[t].ret[1].durability = FileSyncOnly =>
                ~Has(threads[t].ret[1].log, SyncEvents)
          /\ C16_Written(threads[t].ret[1].log)
    /\ \A t \in Threads :
          /\ C16_Written(threads[t].log)
          /\ threads[t].pc # "idle" =>
                (email[1].delivery_durability = FileSyncOnly =>
                    ~Has(threads[t].log, SyncEvents))
          /\ threads[t].pc = "dl_link" =>
                /\ inodes[threads[t].ino].o_sync
                /\ inodes[threads[t].ino].content = deliver_data(email[1])
    /\ \A m \in Maildirs : \A e \in fs[m].new :
          inodes[e.ino].by = "email" =>
             inodes[e.ino].o_sync /\ inodes[e.ino].content = input

\* One Email delivered once with each durability, the first time with the
\* syncs of new/ and tmp/ and the second time with none.
C16_BothDurabilities ==
    \E t, u \in ReturnedThreads :
       /\ threads[t].ret[1].ok /\ threads[u].ret[1].ok
       /\ threads[t].ret[1].durability = FileAndDirSync
       /\ Has(threads[t].ret[1].log, {"sync_tmp_ok"})
       /\ threads[u].ret[1].durability = FileSyncOnly
       /\ Has(threads[u].ret[1].log, {"write_all_ok"})


\* ------------------------------------------------------------------------
\* The names of the generator.
\* ------------------------------------------------------------------------
\* The sampled seconds of a history of names never decrease; its names are
\* pairwise distinct.
NonDecreasing(s) == \A i \in 1..Len(s) - 1 : s[i].unix_time <= s[i + 1].unix_time
Distinct(s) == \A i, j \in 1..Len(s) : i # j => s[i].name # s[j].name
\* The largest second sampled before the k-th name, 0 when there is none.
MaxSeen(s, k) == Max({0} \cup {s[i].unix_time : i \in 1..k - 1})
\* The count of the k-th name by the rule of next().
CountRule(s, k) ==
    IF MaxSeen(s, k) < s[k].unix_time THEN 0 ELSE s[k - 1].name[2] + 1

\* C17: the k-th name of a generator carries the second sampled and a
\* count that is 0 when that second exceeds every second sampled before and
\* the count of the name before plus 1 otherwise; when the sampled seconds
\* never decrease, the names are pairwise distinct.
C17_DistinctNames ==
    /\ \A k \in 1..Len(issued) :
          issued[k].name = EmailFilename(issued[k].unix_time, CountRule(issued, k))
    /\ NonDecreasing(issued) => Distinct(issued)

\* Three names in one second and then two in a later one.
C17_CountedAndReset ==
    /\ Len(issued) = 5
    /\ NonDecreasing(issued)
    /\ issued[3].name = EmailFilename(1, 2)
    /\ issued[5].name = EmailFilename(2, 1)


\* The threads inside EmailFilenameGenerator::next.
InNext(t) == threads[t].pc \in {"gen_next", "gen_format"}

\* The generator a thread inside next() finds is the one it left: the one
\* it found under the mutex before its update, that one updated after.
C18_Untorn(t) ==
    /\ threads[t].pc = "gen_next" => gen = threads[t].g0
    /\ threads[t].pc = "gen_format" =>
          gen = EmailFilenameGeneratorNext(threads[t].g0, threads[t].now).gen

C18_Atomic ==
    /\ \A t \in Threads : InNext(t) => (mutex = Some(t) /\ C18_Untorn(t))
    /\ \A k \in 1..Len(issued) :
          issued[k].name = EmailFilename(issued[k].unix_time, CountRule(issued, k))

\* The names two threads obtained are distinct.
C18_DistinctAcrossThreads ==
    \A i, j \in 1..Len(issued) :
       issued[i].t # issued[j].t => issued[i].name # issued[j].name

\* C18 as stated: generation is atomic, and no two threads ever obtain the
\* same name from the generator of one Email.
C18_AtomicAndNeverSameName == C18_Atomic /\ C18_DistinctAcrossThreads

\* C18: a thread is inside next() only while it holds the mutex, and there
\* it finds the generator as it left it, so that every name is the one
\* next() returns when run alone on the generator state before it; and the
\* names two threads obtain are distinct whenever the sampled seconds never
\* decreased.
C18_AtomicGeneration ==
    C18_Atomic /\ (NonDecreasing(issued) => C18_DistinctAcrossThreads)

\* Two deliveries at once, both with a name of the same second, the second
\* thread having waited for the mutex while the first was inside next().
C18_TwoThreadsOneSecond ==
    /\ Len(issued) >= 2
    /\ issued[1].t # issued[2].t
    /\ issued[1].unix_time = issued[2].unix_time
    /\ \A t \in Threads : threads[t].pc \notin {"idle", "read_path", "hl_gen", "dl_gen"}


\* ------------------------------------------------------------------------
\* The base64 decoder.
\* ------------------------------------------------------------------------
\* The decoder has returned.
Decoded == decode # None /\ decode[1].decoder = "base64" /\ decode[1].ret # None
\* "YWJjZGU=", the encoding of "abcde" in the tests of decode.rs.
B64_ABCDE == <<89, 87, 74, 106, 90, 71, 85, EQ>>

\* C19: for every byte run R, base64_decode_into_buf called on the
\* canonical encoding of R, with zero, one or two pad characters, returns
\* Ok and leaves in the buffer what it held before followed by R, which is
\* R for the empty buffer.
C19_DecodesCanonicalEncoding ==
    /\ Decoded =>
          \A R \in Runs :
             decode[1].input = base64_encode(R) =>
                /\ decode[1].ret[1].ok
                /\ decode[1].ret[1].out = decode[1].before \o R
    /\ base64_decode_into_buf(B64_ABCDE, <<>>) = [ok |-> TRUE, out |-> <<97, 98, 99, 100, 101>>]

\* A run of four bytes, encoded with two pad characters, decoded into the
\* empty buffer.
C19_FourBytesTwoPads ==
    /\ Decoded
    /\ decode[1].before = <<>>
    /\ decode[1].input = base64_encode(<<251, 0, 255, 97>>)
    /\ decode[1].input[7] = EQ
    /\ decode[1].ret[1].out = <<251, 0, 255, 97>>

\* C20 as stated: when the decoder returns an error the buffer is as it
\* was before the call.
C20_BufferRestoredOnError ==
    (Decoded /\ ~decode[1].ret[1].ok) => decode[1].ret[1].out = decode[1].before

\* C20: when base64_decode_into_buf returns an error the bytes the buffer
\* held before the call are still at its front, followed by the bytes
\* decoded before the error: all of R for the encoding of R with one pad
\* too many; decode_text_data_to_buf then cuts the buffer back to its
\* length before the call and appends the undecoded input.
C20_PartialOutputLeft ==
    (Decoded /\ ~decode[1].ret[1].ok) =>
       /\ starts_with(decode[1].ret[1].out, decode[1].before)
       /\ \A R \in Runs :
             decode[1].input = Append(base64_encode(R), EQ) =>
                decode[1].ret[1].out = decode[1].before \o R
       /\ decode_text_data_to_buf(decode[1].input, Some(ENC_BASE64), None, decode[1].before)
             = decode[1].before \o decode[1].input

\* The decoder returned an error with bytes appended to a buffer that was
\* not empty.
C20_ErrorAfterBytes ==
    /\ Decoded
    /\ ~decode[1].ret[1].ok
    /\ decode[1].before # <<>>
    /\ Len(decode[1].ret[1].out) > Len(decode[1].before)


\* The bytes base64 decoding looks at: the 64 alphabet symbols and '='.
IsBase64Symbol(b) == is_alnum(b) \/ b = 43 \/ b = 47
Base64Symbols(s) == SelectSeq(s, LAMBDA b : IsBase64Symbol(b) \/ b = EQ)
\* The place of the first '=' of a string, one past its end when it has none.
FirstPad(s) == Min({i \in 1..Len(s) : s[i] = EQ} \cup {Len(s) + 1})
\* Complete quartets, then nothing, or two symbols and "==", or three
\* symbols and "=".
WellPadded(s, p) ==
    \/ p = Len(s) + 1 /\ Len(s) % 4 = 0
    \/ (p - 1) % 4 = 2 /\ SubSeq(s, p, Len(s)) = <<EQ, EQ>>
    \/ (p - 1) % 4 = 3 /\ SubSeq(s, p, Len(s)) = <<EQ>>
WellFormedBase64(s) == WellPadded(s, FirstPad(s))

\* C21: base64_decode_into_buf returns Ok exactly when the alphabet symbols
\* and pad characters of its input, the other bytes left out wherever they
\* are, form complete quartets followed by nothing or by one last group of
\* two symbols and "==" or of three symbols and "=".
C21_OkIffWellFormed ==
    Decoded => (decode[1].ret[1].ok <=> WellFormedBase64(Base64Symbols(decode[1].input)))

\* Ok on an input whose two pad characters have other bytes between and
\* after them.
C21_SkippedBetweenPads ==
    /\ Decoded
    /\ decode[1].ret[1].ok
    /\ \E i \in 1..Len(decode[1].input) - 2 :
          /\ decode[1].input[i] = EQ
          /\ decode[1].input[i + 1] = SP
          /\ decode[1].input[i + 2] = EQ
    /\ decode[1].input[Len(decode[1].input)] = SP


\* ------------------------------------------------------------------------
\* The quoted-printable decoder.
\* ------------------------------------------------------------------------
QpDecoded == decode # None /\ decode[1].decoder = "qp" /\ decode[1].ret # None
\* The hex digits of either case, by value.
HexDigits == <<48, 49, 50, 51, 52, 53, 54, 55, 56, 57, 65, 66, 67, 68, 69, 70>>
IsHexDigit(b) == \E v \in 1..16 : HexDigits[v] = b \/ (HexDigits[v] + 32 = b /\ v > 10)
HexValue(b) == CHOOSE v \in 0..15 : HexDigits[v + 1] = b \/ (HexDigits[v + 1] + 32 = b /\ v >= 10)
\* What the decoding of s appends, by the cases of the rule: a byte other
\* than '=', '=' at the end, an escape, a soft line break, '=' and another
\* byte.
RECURSIVE QpExpected(_)
QpExpected(s) ==
    IF s = <<>> THEN <<>>
    ELSE IF s[1] # EQ THEN <<s[1]>> \o QpExpected(From(s, 1))
    ELSE IF Len(s) = 1 THEN <<EQ>>
    ELSE IF Len(s) >= 3 /\ IsHexDigit(s[2]) /\ IsHexDigit(s[3])
    THEN <<HexValue(s[2]) * 16 + HexValue(s[3])>> \o QpExpected(From(s, 3))
    ELSE IF s[2] = LF THEN QpExpected(From(s, 2))
    ELSE IF Len(s) >= 3 /\ s[2] = CR /\ s[3] = LF THEN QpExpected(From(s, 3))
    ELSE <<EQ, s[2]>> \o QpExpected(From(s, 2))
\* No escape and no soft line break: no '=' before two hex digits, LF or CR LF.
Plain(s) ==
    \A i \in 1..Len(s) :
       s[i] = EQ =>
          /\ ~(i + 2 <= Len(s) /\ IsHexDigit(s[i + 1]) /\ IsHexDigit(s[i + 2]))
          /\ ~(i + 1 <= Len(s) /\ s[i + 1] = LF)
          /\ ~(i + 2 <= Len(s) /\ s[i + 1] = CR /\ s[i + 2] = LF)

\* C22: qp_decode_into_buf returns Ok on every input and appends to the
\* buffer: a byte other than '=' as it is, '=' and two hex digits of either
\* case as the byte of that value, '=' LF and '=' CR LF as nothing, '=' and
\* another byte as both, a last '=' as '='; an input with no escape and no
\* soft line break is appended unchanged and what is appended is never
\* longer than the input.
C22_QpDecodes ==
    QpDecoded =>
       /\ decode[1].ret[1].ok
       /\ decode[1].ret[1].out = decode[1].before \o QpExpected(decode[1].input)
       /\ Len(decode[1].ret[1].out) <= Len(decode[1].before) + Len(decode[1].input)
       /\ decode[1].input = <<97, EQ, 54, 50, 99, EQ, 54, 52>> =>
             decode[1].ret[1].out = decode[1].before \o <<97, 98, 99, 100>>
       /\ decode[1].input = <<97, EQ, CR, LF, 98, EQ, LF, 99>> =>
             decode[1].ret[1].out = decode[1].before \o <<97, 98, 99>>
       /\ Plain(decode[1].input) =>
             decode[1].ret[1].out = decode[1].before \o decode[1].input

\* An escape in upper-case hex digits decoded before a last '='.
C22_UpperEscapeThenLastEq ==
    /\ QpDecoded
    /\ decode[1].input = <<EQ, 54, 70, EQ>>
    /\ decode[1].ret[1].out = decode[1].before \o <<111, EQ>>


\* ------------------------------------------------------------------------
\* Folded header fields.
\* ------------------------------------------------------------------------
\* The bytes of the input a call of next() consumed for a history entry.
RawOf(e) == SubSeq(input, e.before.last + 1, e.after.last)
\* The physical lines of s: each ends after a line feed, the last one maybe
\* without.
RECURSIVE PhysicalLines(_)
PhysicalLines(s) ==
    IF s = <<>> THEN <<>>
    ELSE LET n == Min({i \in 1..Len(s) : s[i] = LF} \cup {Len(s)})
         IN <<SubSeq(s, 1, n)>> \o PhysicalLines(From(s, n))
\* A line without its terminator "\r\n" or "\n".
StripTerminator(l) ==
    IF ends_with(l, <<CR, LF>>) THEN SubSeq(l, 1, Len(l) - 2)
    ELSE IF ends_with(l, <<LF>>) THEN SubSeq(l, 1, Len(l) - 1)
    ELSE l
\* A line without the CR and LF bytes at its end.
StripNewlines(l) ==
    SubSeq(l, 1, Max({i \in 0..Len(l) : i = 0 \/ l[i] \notin {CR, LF}}))
\* The lines ls joined, every line but the last without its terminator.
UnfoldedByTerminator(ls) ==
    Concat([i \in 1..Len(ls) |-> IF i < Len(ls) THEN StripTerminator(ls[i]) ELSE ls[i]])
UnfoldedByNewlines(ls) ==
    Concat([i \in 1..Len(ls) |-> IF i < Len(ls) THEN StripNewlines(ls[i]) ELSE ls[i]])
\* A history entry of a HeaderField that began with a field line: its
\* lines after the first are continuation lines, and the line after it, if
\* there is one, is not.
IsContinuation(l) == l # <<>> /\ l[1] \in {SP, HT}
FieldEntry(e) == e.el.kind = "HeaderField" /\ ~IsContinuation(RawOf(e))
WholeField(e) ==
    /\ RawOf(e) # <<>>
    /\ \A i \in 2..Len(PhysicalLines(RawOf(e))) : IsContinuation(PhysicalLines(RawOf(e))[i])
    /\ ~IsContinuation(From(input, e.after.last))
Folded(e) == FieldEntry(e) /\ Len(PhysicalLines(RawOf(e))) > 1

\* C23 as stated: a field line and the continuation lines after it are
\* emitted as one HeaderField whose bytes are the lines joined with the
\* terminator "\n" or "\r\n" of every line but the last removed.
C23_UnfoldedByTerminator ==
    \A k \in 1..Len(elements) :
       FieldEntry(elements[k]) =>
          /\ WholeField(elements[k])
          /\ elements[k].el.data = UnfoldedByTerminator(PhysicalLines(RawOf(elements[k])))

\* C23: a field line and the continuation lines after it (lines that
\* begin with SP or HTAB) are emitted as one HeaderField, also when they end
\* the input; its bytes are the lines joined with the CR and LF bytes at the
\* end of every line but the last removed, the leading whitespace of the
\* continuation lines kept; what precedes the last line's terminator is
\* therefore the same for LF and CRLF input.
C23_UnfoldedByNewlines ==
    \A k \in 1..Len(elements) :
       FieldEntry(elements[k]) =>
          /\ WholeField(elements[k])
          /\ elements[k].el.data = UnfoldedByNewlines(PhysicalLines(RawOf(elements[k])))
          /\ StripNewlines(elements[k].el.data)
                = Concat([i \in 1..Len(PhysicalLines(RawOf(elements[k]))) |->
                             StripNewlines(PhysicalLines(RawOf(elements[k]))[i])])

\* A field of three CRLF and LF lines folded with SP and HTAB was emitted at
\* the end of an input without blank line and body.
C23_FoldedAtEndOfInput ==
    /\ input = IN_FOLDED_NO_BODY_CRLF
    /\ \E k \in 1..Len(elements) :
          /\ Folded(elements[k])
          /\ elements[k].after.last = Len(input)
          /\ elements[k].el.data = <<84, 111, 58, 32, 120, 44, 32, 121, 9, 122, 10>>


\* ------------------------------------------------------------------------
\* The field map.
\* ------------------------------------------------------------------------
\* The text of the k-th element of the history as a header field: what
\* stands before its first colon and what stands after it.
FieldText(k) == trim(utf8_decode(Appended(k), 1))
ColonAt(s) == Min({i \in 1..Len(s) : s[i] = COLON} \cup {Len(s) + 1})
NameOf(k) == SubSeq(FieldText(k), 1, ColonAt(FieldText(k)) - 1)
ValueOf(k) == From(FieldText(k), ColonAt(FieldText(k)))
\* Two names that differ in the case of their letters at most.
SameLetter(a, b) ==
    \/ a = b
    \/ a >= 65 /\ a <= 90 /\ b = a + 32
    \/ b >= 65 /\ b <= 90 /\ a = b + 32
SameName(n, m) == Len(n) = Len(m) /\ \A i \in 1..Len(n) : SameLetter(n[i], m[i])
\* The values of the header fields named n, in the order of the source.
OccurrencesAt(n) ==
    SelectSeq([k \in 1..Len(elements) |-> k],
              LAMBDA k : elements[k].el.kind = "HeaderField" /\ SameName(NameOf(k), n))
Occurrences(n) == [i \in 1..Len(OccurrencesAt(n)) |-> ValueOf(OccurrencesAt(n)[i])]
\* The names looked up: "To", "to", "tO", "Content-Type", "CONTENT-TYPE",
\* "content-transfer-encoding", "Cc".
LookupNames ==
    { <<84, 111>>, <<116, 111>>, <<116, 79>>,
      <<67, 111, 110, 116, 101, 110, 116, 45, 84, 121, 112, 101>>,
      <<67, 79, 78, 84, 69, 78, 84, 45, 84, 89, 80, 69>>,
      <<99, 111, 110, 116, 101, 110, 116, 45, 116, 114, 97, 110, 115, 102, 101, 114, 45,
        101, 110, 99, 111, 100, 105, 110, 103>>,
      <<67, 99>> }

\* C24: for every name, header_field_all_occurrences returns the values of
\* all the header fields of that name, whatever the case of its letters, in
\* the order of the source, header_field returns the first of them, and both
\* return None when there is no header field of that name.
C24_OccurrencesInSourceOrder ==
    phase = "constructed" =>
       \A n \in LookupNames :
          /\ header_field_all_occurrences(email[1], n)
                = IF Occurrences(n) = <<>> THEN None ELSE Some(Occurrences(n))
          /\ header_field(email[1], n)
                = IF Occurrences(n) = <<>> THEN None ELSE Some(Occurrences(n)[1])

\* "tO" was looked up in an email with the fields "To: x", "TO: w" and a
\* folded "To: x, y", and "Cc" in an email without such a field.
C24_ThreeOccurrences ==
    /\ phase = "constructed"
    /\ input = IN_OCCURRENCES
    /\ header_field_all_occurrences(email[1], <<116, 79>>)
          = Some(<< <<SP, 120>>, <<SP, 119>>, <<SP, 120, 44, SP, 121>> >>)
    /\ header_field(email[1], <<116, 79>>) = Some(<<SP, 120>>)
    /\ header_field(email[1], <<67, 99>>) = None


\* The physical lines of the header of the input, those before the first
\* line that begins with LF or CR, and the lines after that line.
BlankLineAt(ls) == Min({i \in 1..Len(ls) : ls[i][1] \in {LF, CR}} \cup {Len(ls) + 1})
HeaderLines(s) == SubSeq(PhysicalLines(s), 1, BlankLineAt(PhysicalLines(s)) - 1)
BodyLines(s) == From(PhysicalLines(s), BlankLineAt(PhysicalLines(s)))
\* The line l has the form "n: value", whatever the case of the letters of n.
LineNamed(l, n) ==
    Len(l) > Len(n) /\ SameName(SubSeq(l, 1, Len(n)), n) /\ l[Len(n) + 1] = COLON
CountNamed(ls, n) == Cardinality({i \in 1..Len(ls) : LineNamed(ls[i], n)})
\* No header field of the email gave the parser a multipart boundary.
NoBoundaries == \A k \in 1..Len(elements) : elements[k].after.active_boundary = <<>>
\* A step that changes the field map returns a HeaderField.
C25_Step ==
    fields' # fields =>
       /\ Len(elements') = Len(elements) + 1
       /\ elements'[Len(elements')].el.kind = "HeaderField"
\* What the lookups return for an email without multipart boundaries: the
\* lines of the header count, the lines after the blank line do not.
C25_BodyLinesNotFields ==
    phase = "constructed" /\ NoBoundaries =>
       \A n \in LookupNames :
          /\ CountNamed(HeaderLines(input), n) = 0 =>
                /\ header_field(email[1], n) = None
                /\ header_field_all_occurrences(email[1], n) = None
          /\ CountNamed(HeaderLines(input), n) > 0 =>
                Len(header_field_all_occurrences(email[1], n)[1])
                   = CountNamed(HeaderLines(input), n)

\* C25: only HeaderField elements add to the field map, Body and Verbatim
\* elements never do; in an email without multipart boundaries a line
\* "Name: value" after the blank line that ends the header is not returned
\* by header_field or header_field_all_occurrences when the header has no
\* field of that name, and adds no occurrence when it has one.
C25_OnlyHeaderFieldsAddEntries == [](C25_BodyLinesNotFields) /\ [][C25_Step]_vars

\* The body has a line "TO: w" and a line "Content-Type: text/plain", the
\* header has "To: x" alone: To has one occurrence, Content-Type none.
C25_FieldLinesInBody ==
    /\ phase = "constructed"
    /\ input = IN_BODY_FIELDS
    /\ CountNamed(BodyLines(input), <<84, 111>>) = 1
    /\ CountNamed(BodyLines(input), <<67, 111, 110, 116, 101, 110, 116, 45, 84, 121, 112, 101>>) = 1
    /\ header_field_all_occurrences(email[1], <<84, 111>>) = Some(<< <<SP, 120>> >>)
    /\ header_field(email[1], <<67, 111, 110, 116, 101, 110, 116, 45, 84, 121, 112, 101>>) = None


\* ------------------------------------------------------------------------
\* Encoded-words.
\* ------------------------------------------------------------------------
\* The text "=?charset?encoding?data?=" that starts at position i of s, read
\* by its question marks: the positions of the three after "=?".
NextQ(s, j) == Min({k \in j..Len(s) : s[k] = QMARK} \cup {Len(s) + 1})
WordStart(s, i) == i + 1 <= Len(s) /\ s[i] = EQ /\ s[i + 1] = QMARK
WordQ1(s, i) == NextQ(s, i + 2)
WordQ2(s, i) == NextQ(s, WordQ1(s, i) + 1)
WordQ3(s, i) == NextQ(s, WordQ2(s, i) + 1)
WordCharset(s, i) == to_lowercase(SubSeq(s, i + 2, WordQ1(s, i) - 1))
WordEncoding(s, i) == to_lowercase(SubSeq(s, WordQ1(s, i) + 1, WordQ2(s, i) - 1))
WordPayload(s, i) == SubSeq(s, WordQ2(s, i) + 1, WordQ3(s, i) - 1)
WordEnd(s, i) == WordQ3(s, i) + 2
\* The text has the form of an encoded-word: three parts that are not
\* empty, "?=" at the end, no SP or HTAB in the data.
WordShaped(s, i) ==
    /\ WordStart(s, i)
    /\ WordQ3(s, i) + 1 <= Len(s) /\ s[WordQ3(s, i) + 1] = EQ
    /\ WordCharset(s, i) # <<>> /\ WordEncoding(s, i) # <<>> /\ WordPayload(s, i) # <<>>
    /\ \A k \in 1..Len(WordPayload(s, i)) : WordPayload(s, i)[k] \notin {SP, HT}
\* What the transfer decoding of the payload gives: '_' is SP for q.
WordBytes(s, i) ==
    IF WordEncoding(s, i) = <<113>>
    THEN qp_decode_into_buf([k \in 1..Len(WordPayload(s, i)) |->
                                IF WordPayload(s, i)[k] = USCORE THEN SP
                                ELSE WordPayload(s, i)[k]], <<>>)
    ELSE base64_decode_into_buf(WordPayload(s, i), <<>>)
\* A well-formed encoded-word: the encoding is q or b, the payload decodes
\* to some bytes, the charset is known.
WellFormedWord(s, i) ==
    /\ WordShaped(s, i)
    /\ WordEncoding(s, i) \in {<<113>>, <<98>>}
    /\ WordBytes(s, i).ok /\ WordBytes(s, i).out # <<>>
    /\ charset_decode(WordCharset(s, i), WordBytes(s, i).out) # None
WordText(s, i) == charset_decode(WordCharset(s, i), WordBytes(s, i).out)[1]
\* The position after the white space that starts at position j.
SkipWhitespace(s, j) ==
    Min({k \in j..Len(s) + 1 : k = Len(s) + 1 \/ s[k] \notin {SP, HT, LF, CR, 11, 12}})
\* Where the field goes on after the word at i: at the next word when white
\* space alone stands between the two, behind the word otherwise.
AfterWord(s, i) ==
    IF WellFormedWord(s, SkipWhitespace(s, WordEnd(s, i)))
    THEN SkipWhitespace(s, WordEnd(s, i))
    ELSE WordEnd(s, i)
\* The field s from position i on with every encoded-word replaced by its
\* text and the white space between consecutive words removed.
RECURSIVE WordsDecoded(_, _)
WordsDecoded(s, i) ==
    IF i > Len(s) THEN <<>>
    ELSE IF WellFormedWord(s, i) THEN WordText(s, i) \o WordsDecoded(s, AfterWord(s, i))
    ELSE <<s[i]>> \o WordsDecoded(s, i + 1)
\* The well-formed encoded-words of s, and s having "=?" and "?=" in such
\* words alone.
WordsAt(s) == {i \in 1..Len(s) : WellFormedWord(s, i)}
InWord(s, i) == \E j \in WordsAt(s) : j <= i /\ i + 1 < WordEnd(s, j)
OnlyWellFormedWords(s) ==
    \A i \in 1..Len(s) - 1 :
       (s[i] = EQ /\ s[i + 1] = QMARK) \/ (s[i] = QMARK /\ s[i + 1] = EQ) => InWord(s, i)

\* C26: in a header field whose encoded-words are all well-formed, what is
\* appended to the normalized data is the field with every encoded-word
\* replaced in place by its decoded text converted to UTF-8 ('_' read as SP
\* in the q encoding) and with the white space between consecutive words
\* removed, the white space of unfolded continuation lines as well, however
\* many words follow each other.
C26_EncodedWordsDecoded ==
    \A k \in 1..Len(elements) :
       elements[k].el.kind = "HeaderField" /\ OnlyWellFormedWords(elements[k].el.data) =>
          Appended(k) = WordsDecoded(elements[k].el.data, 1)

\* A field of three lines with a word on each, in the b and the q encoding,
\* was appended as "S: a cb".
C26_ThreeWordsOverThreeLines ==
    /\ input = Concat(<<L_SUBJ_B, L_WORD_Q, L_WORD_B, L_BLANK>>)
    /\ Len(elements) >= 1
    /\ Cardinality(WordsAt(elements[1].el.data)) = 3
    /\ OnlyWellFormedWords(elements[1].el.data)
    /\ Appended(1) = <<83, 58, 32, 97, 32, 99, 98, 10>>

\* An encoded-word of the q or b encoding that cannot be decoded: its
\* payload fails to decode or its charset is not known.
FailingWord(s, i) ==
    /\ WordShaped(s, i)
    /\ WordEncoding(s, i) \in {<<113>>, <<98>>}
    /\ \/ ~WordBytes(s, i).ok
       \/ charset_decode(WordCharset(s, i), WordBytes(s, i).out) = None
FailingAt(s) == {i \in 1..Len(s) : FailingWord(s, i)}
\* s has such words, and "=?" and "?=" in such words alone.
OnlyFailingWords(s) ==
    /\ FailingAt(s) # {}
    /\ \A i \in 1..Len(s) - 1 :
          (s[i] = EQ /\ s[i + 1] = QMARK) \/ (s[i] = QMARK /\ s[i + 1] = EQ) =>
             \E j \in FailingAt(s) : j <= i /\ i + 1 < WordEnd(s, j)

\* C27: a header field whose encoded-words all fail to decode or name an
\* unknown charset is appended to the normalized data byte for byte as it
\* is, and the value stored in the field map is the value of that text.
C27_FailedWordUnchanged ==
    \A k \in 1..Len(elements) :
       elements[k].el.kind = "HeaderField" /\ OnlyFailingWords(elements[k].el.data) =>
          /\ Appended(k) = elements[k].el.data
          /\ phase = "constructed" =>
                \E v \in 1..Len(email[1].fields[to_lowercase(NameOf(k))]) :
                   email[1].fields[to_lowercase(NameOf(k))][v]
                      = From(trim(elements[k].el.data), ColonAt(trim(elements[k].el.data)))

\* The fields "S: =?utf-8?b?YQ=?=" and "S: =?x-foo?q?a_=41?=" were appended
\* as "S: YQ=" and "S: a A": the payload of the first as it is, that of the
\* second decoded and not converted, both without "=?charset?encoding?" and
\* "?=".
C27_PayloadInPlaceOfWord ==
    /\ input = IN_BAD_WORDS
    /\ phase = "constructed"
    /\ OnlyFailingWords(elements[1].el.data) /\ OnlyFailingWords(elements[2].el.data)
    /\ Appended(1) = <<83, 58, 32, 89, 81, 61, 10>>
    /\ Appended(2) = <<83, 58, 32, 97, 32, 65, 10>>
    /\ header_field_all_occurrences(email[1], <<83>>)
          = Some(<< <<32, 89, 81, 61>>, <<32, 97, 32, 65>> >>)


\* ------------------------------------------------------------------------
\* The phase after a boundary line.
\* ------------------------------------------------------------------------
\* The element after the k-th one is one of the header phase: a HeaderField
\* or the Verbatim of the blank line that ends the header.
HeaderPhaseNext(k) ==
    k < Len(elements) =>
       \/ elements[k + 1].el.kind = "HeaderField"
       \/ elements[k + 1].el.kind = "Verbatim" /\ elements[k + 1].el.data[1] \in {LF, CR}
                                               /\ elements[k + 1].before.in_header
\* The element after the k-th one is one of the body phase: a Body or the
\* Verbatim of a boundary line.
BodyPhaseNext(k) ==
    k < Len(elements) =>
       elements[k + 1].el.kind = "Body" \/ BoundaryEntry(elements[k + 1])

\* C28 as stated: after every boundary line, a closing one as well, the
\* parser is in the header phase and what follows is read as a header.
C28_HeaderAfterAnyBoundary ==
    \A k \in 1..Len(elements) :
       BoundaryEntry(elements[k]) => elements[k].after.in_header /\ HeaderPhaseNext(k)

\* C28: after an opening or sibling boundary line the parser is in the
\* header phase and the lines that follow are read as header lines; after
\* a closing boundary line it stays in the body phase and the lines that
\* follow are read as body lines, "Name: value" lines and blank lines too.
C28_HeaderAfterOpeningBoundary ==
    \A k \in 1..Len(elements) :
       /\ OpeningEntry(elements[k]) => elements[k].after.in_header /\ HeaderPhaseNext(k)
       /\ ClosingEntry(elements[k]) => ~elements[k].after.in_header /\ BodyPhaseNext(k)

\* The lines "To: x", " y", a blank line and "hi" after the closing
\* boundary line "--A--" came out as one Body, after a part whose lines
\* after "--A" came out as a HeaderField.
C28_BodyAfterClosingBoundary ==
    /\ input = IN_AFTER_CLOSE
    /\ \E k \in 2..Len(elements) :
          /\ ClosingEntry(elements[k - 1])
          /\ elements[k].el.kind = "Body"
          /\ elements[k].el.data = Concat(<<L_TO, L_FOLD, L_BLANK, L_TEXT>>)
    /\ \E k \in 2..Len(elements) :
          OpeningEntry(elements[k - 1]) /\ elements[k].el.kind = "HeaderField"


\* ------------------------------------------------------------------------
\* Boundary lines.
\* ------------------------------------------------------------------------
\* The line l begins with "--" and then all the bytes of b, and b is not
\* empty.
BoundaryShaped(l, b) ==
    /\ b # <<>>
    /\ Len(l) >= 2 + Len(b)
    /\ l[1] = DASH /\ l[2] = DASH
    /\ \A i \in 1..Len(b) : l[2 + i] = b[i]
\* The lines a call of next() read in body phase, judged against the
\* boundary that was active: a Verbatim is one line of that shape, a Body
\* has no line of that shape.
BodyPhaseLines(e, ls, b) ==
    /\ e.el.kind # "HeaderField"
    /\ e.el.kind = "Verbatim" => Len(ls) = 1 /\ BoundaryShaped(ls[1], b)
    /\ e.el.kind = "Body" => \A i \in 1..Len(ls) : ~BoundaryShaped(ls[i], b)

FirstOpening(e) ==
    /\ OpeningEntry(e)
    /\ e.before.part_stack # <<>>
    /\ e.before.part_stack[Len(e.before.part_stack)].subpart_boundary
          = Some(e.before.active_boundary)
\* What a call of next() may do to the depth d0 of the stack, giving d1.
DepthRule(e, d0, d1) ==
    /\ d1 >= 1
    /\ d1 > d0 => FirstOpening(e) /\ d1 = d0 + 1
    /\ d1 < d0 => ClosingEntry(e) /\ d1 = d0 - 1
    /\ OpeningEntry(e) /\ ~FirstOpening(e) => d1 = d0

\* C30: the part stack holds the root Part at all times, its depth is at
\* least 1 after every step of the parser; only the first opening boundary
\* line under a multipart pushes a Part, a sibling boundary line leaves the
\* depth as it is, and a closing boundary line pops a Part that an opening
\* boundary line pushed and never the root.
C30_RootStaysOnStack ==
    /\ Len(parser.part_stack) >= 1
    /\ \A k \in 1..Len(elements) :
          DepthRule(elements[k], Len(elements[k].before.part_stack),
                    Len(elements[k].after.part_stack))

\* A closing boundary line was met with the root Part alone on the stack
\* and left the stack empty.
C30_RootPopped ==
    \E k \in 1..Len(elements) :
       /\ ClosingEntry(elements[k])
       /\ Len(elements[k].before.part_stack) = 1
       /\ elements[k].after.part_stack = <<>>
       /\ input = IN_BEGIN_AFTER_END



\* ------------------------------------------------------------------------
\* The recorded path as the source of the hard links.
\* ------------------------------------------------------------------------
\* The thread is inside deliver_with_hard_link.
InHardLink(t) ==
    \/ threads[t].pc \in {"hl_gen", "hl_link", "hl_sync"}
    \/ (threads[t].pc \in {"gen_next", "gen_format"} /\ threads[t].via = "hard_link")

\* The path names an entry of new/ of the maildirs f whose file, one of the
\* files i, this Email wrote in full.
CompleteCopyIn(f, i, p) ==
    /\ HasName(f[p.m].new, p.name)
    /\ i[InoOf(f[p.m].new, p.name)].by = "email"
    /\ i[InoOf(f[p.m].new, p.name)].content = deliver_data(email[1])
CompleteCopy(p) == CompleteCopyIn(fs, inodes, p)

\* The system calls of a Maildir::deliver that returned Ok end the log.
DeliverReturnedOk(log) ==
    /\ Len(log) >= 4
    /\ log[Len(log)] = "record"
    /\ \E k \in 1..Len(log) - 3 :
          /\ log[k] = "create_ok" /\ log[k + 1] = "write_all_ok" /\ log[k + 2] = "link_ok"
          /\ log[k + 3] = "remove_ok"
          /\ \A j \in k + 4..Len(log) - 1 : log[j] \in {"sync_new_ok", "sync_tmp_ok"}

\* A step that writes deliver_path is the step of a thread that leaves
\* deliver_to_maildir_path with Ok(email_path) after its Maildir::deliver
\* returned Ok, and it writes that path.
C31_RecordStep ==
    (phase = "constructed" /\ email'[1].deliver_path # email[1].deliver_path) =>
       \E t \in Threads :
          /\ threads[t].pc = "dl_record"
          /\ threads'[t].ret # None
          /\ threads'[t].ret[1].ok
          /\ DeliverReturnedOk(threads'[t].ret[1].log)
          /\ email'[1].deliver_path = Some([m |-> threads[t].m, name |-> threads[t].name])
          /\ CompleteCopyIn(fs', inodes', [m |-> threads[t].m, name |-> threads[t].name])

\* A thread inside deliver_with_hard_link links from a recorded path, and
\* the recorded path names a complete copy in new/.
C31_SourceComplete ==
    phase = "constructed" =>
       /\ \A t \in Threads : InHardLink(t) =>
             (threads[t].src # None /\ CompleteCopy(threads[t].src[1]))
       /\ email[1].deliver_path # None => CompleteCopy(email[1].deliver_path[1])
       /\ \A t \in Threads : (threads[t].pc # "idle" /\ threads[t].pc # "dl_record") =>
             (threads[t].src = None \/ email[1].deliver_path # None)

\* C31: deliver_path is written only in the step in which a call whose
\* Maildir::deliver returned Ok returns, never by a hard-link delivery and
\* never on failure, and every deliver_with_hard_link attempt links from a
\* recorded path whose file was written in full and linked into new/.
C31_RecordedBeforeHardLink == [](C31_SourceComplete) /\ [][C31_RecordStep]_vars

\* A hard link was made from the recorded path of another maildir.
C31_LinkedFromRecorded ==
    \E t \in Threads :
       /\ threads[t].pc = "hl_sync"
       /\ threads[t].src # None
       /\ threads[t].src[1].m # threads[t].m
       /\ HasName(fs[threads[t].m].new, threads[t].name)
       /\ InoOf(fs[threads[t].m].new, threads[t].name)
             = InoOf(fs[threads[t].src[1].m].new, threads[t].src[1].name)



\* ------------------------------------------------------------------------
\* The split of header() and body() against the elements of the parser.
\* ------------------------------------------------------------------------
\* The element of a history entry is the Verbatim of a blank line that ends
\* a header.
BlankEntry(e) == e.el.kind = "Verbatim" /\ e.before.in_header
\* The index of the first such entry, past the end when there is none.
FirstBlankEntry ==
    Min({k \in 1..Len(elements) : BlankEntry(elements[k])} \cup {Len(elements) + 1})
\* The end of the bytes appended for a header field, the line feed that
\* ends it left aside.
FieldEnd(k) ==
    IF Appended(k) # <<>> /\ Appended(k)[Len(Appended(k))] = LF
    THEN AppendedEnd(k) - 1
    ELSE AppendedEnd(k)

C32_BodyInBody(n) ==
    \A k \in 1..Len(elements) : elements[k].el.kind = "Body" => elements[k].at >= n
C32_HeaderInHeader(n) ==
    \A k \in 1..Len(elements) :
       (elements[k].el.kind = "HeaderField" /\ k < FirstBlankEntry) => FieldEnd(k) <= n

\* C32: the bytes appended for every Body element lie at or after
\* body_index, and the bytes appended for every header field before the
\* first blank line, the line feed that ends the field left aside, lie
\* before body_index.
C32_SplitAgreesWithParser ==
    phase = "constructed" =>
       (C32_BodyInBody(email[1].body_index) /\ C32_HeaderInHeader(email[1].body_index))

\* An input whose first line is blank: the parser gave a Body element and
\* body() is empty.
C32_BodyInHeader ==
    /\ phase = "constructed"
    /\ input # <<>> /\ input[1] = LF
    /\ \E k \in 1..Len(elements) : elements[k].el.kind = "Body"
    /\ body(email[1]) = <<>>
    /\ header(email[1]) = input



\* ------------------------------------------------------------------------
\* The assertion of EmailParser::next.
\* ------------------------------------------------------------------------
\* The calls of next() consumed the input without a gap, from its start.
Contiguous ==
    /\ elements # <<>> => elements[1].before.last = 0
    /\ \A k \in 1..Len(elements) - 1 : elements[k].after.last = elements[k + 1].before.last
    /\ elements # <<>> => elements[Len(elements)].after.last <= parser.last
    /\ phase = "constructed" =>
          /\ parser.last = Len(input)
          /\ elements # <<>> => elements[Len(elements)].after.last = Len(input)
          /\ elements = <<>> => input = <<>>

\* The call that gave a Verbatim consumed its line alone; the call that
\* gave a HeaderField consumed no blank line, the call that gave a Body no
\* boundary line, and the bytes of a Body are the bytes consumed.
NothingPending(e) ==
    /\ e.el.kind = "Verbatim" => RawOf(e) = e.el.data
    /\ e.el.kind = "HeaderField" =>
          \A i \in 1..Len(PhysicalLines(RawOf(e))) :
             PhysicalLines(RawOf(e))[i][1] \notin {LF, CR}
    /\ e.el.kind = "Body" =>
          /\ RawOf(e) = e.el.data
          /\ \A i \in 1..Len(PhysicalLines(RawOf(e))) :
                ~is_boundary_line(PhysicalLines(RawOf(e))[i], e.before.active_boundary)

\* C33: assert!(element.is_none()) of EmailParser::next never fails: the
\* call that consumes a blank line of a header or a boundary line has
\* gathered no header or body bytes, and no byte of the input is dropped
\* between the calls.
C33_AssertionHolds ==
    /\ panic # "assert"
    /\ \A k \in 1..Len(elements) : NothingPending(elements[k])
    /\ Contiguous

\* A folded header field right before the blank line, and a body of two
\* lines right before a boundary line, each given by a call of its own.
C33_FieldThenBlankBodyThenBoundary ==
    /\ input = IN_FOLDED_PART
    /\ phase = "constructed"
    /\ \E k \in 1..Len(elements) - 1 :
          /\ Folded(elements[k])
          /\ BlankEntry(elements[k + 1])
    /\ \E k \in 1..Len(elements) - 1 :
          /\ elements[k].el.kind = "Body"
          /\ Len(PhysicalLines(RawOf(elements[k]))) >= 2
          /\ BoundaryEntry(elements[k + 1])



\* ------------------------------------------------------------------------
\* Decoders that succeed, with or without output.
\* ------------------------------------------------------------------------
\* The transfer decoder a text body declares, run on its bytes.
BodyDecoder(el) ==
    IF el.encoding[1] = ENC_BASE64 THEN base64_decode_into_buf(el.data, <<>>)
    ELSE qp_decode_into_buf(el.data, <<>>)
Decodable(el) ==
    /\ TextBody(el)
    /\ el.encoding # None
    /\ el.encoding[1] \in {ENC_BASE64, ENC_QP}
    /\ BodyDecoder(el).ok

\* An encoded-word whose payload the decoder accepts and whose charset is
\* known, whatever the decoder gives.
SucceedingWord(s, i) ==
    /\ WordShaped(s, i)
    /\ WordEncoding(s, i) \in {<<113>>, <<98>>}
    /\ WordBytes(s, i).ok
    /\ charset_decode(WordCharset(s, i), WordBytes(s, i).out) # None
SucceedingAt(s) == {i \in 1..Len(s) : SucceedingWord(s, i)}
\* s has such words, and "=?" and "?=" in such words alone.
OnlySucceedingWords(s) ==
    /\ SucceedingAt(s) # {}
    /\ \A i \in 1..Len(s) - 1 :
          (s[i] = EQ /\ s[i + 1] = QMARK) \/ (s[i] = QMARK /\ s[i + 1] = EQ) =>
             \E j \in SucceedingAt(s) : j <= i /\ i + 1 < WordEnd(s, j)
AfterSucceeding(s, i) ==
    IF SucceedingWord(s, SkipWhitespace(s, WordEnd(s, i)))
    THEN SkipWhitespace(s, WordEnd(s, i))
    ELSE WordEnd(s, i)
\* The field s from position i on with every such word replaced by the
\* output of its decoder, converted.
RECURSIVE WordOutputs(_, _)
WordOutputs(s, i) ==
    IF i > Len(s) THEN <<>>
    ELSE IF SucceedingWord(s, i) THEN WordText(s, i) \o WordOutputs(s, AfterSucceeding(s, i))
    ELSE <<s[i]>> \o WordOutputs(s, i + 1)

\* C34: when the transfer decoder succeeds on a text body or on the payload
\* of an encoded-word, what is appended is the output of the decoder after
\* charset conversion, also when that output is empty.
C34_DecoderOutputAppended ==
    \A k \in 1..Len(elements) :
       /\ Decodable(elements[k].el) =>
             Appended(k) = C7_convert(elements[k].el.charset, BodyDecoder(elements[k].el).out)
       /\ (elements[k].el.kind = "HeaderField" /\ OnlySucceedingWords(elements[k].el.data)) =>
             Appended(k) = WordOutputs(elements[k].el.data, 1)

\* The word "=?utf-8?b?-?=" and the body "=\n", whose decoders succeed with
\* no output, were appended as "-" and "=\n".
C34_RawForEmptyOutput ==
    /\ input = IN_EMPTY_DECODES
    /\ Len(elements) = 4
    /\ SucceedingWord(elements[1].el.data, 4)
    /\ WordBytes(elements[1].el.data, 4).out = <<>>
    /\ Appended(1) = <<83, 58, 32, 45, 10>>
    /\ Decodable(elements[4].el)
    /\ BodyDecoder(elements[4].el).out = <<>>
    /\ Appended(4) = L_QP_SOFT



\* ------------------------------------------------------------------------
\* Email::process and the pipes of its child.
\* ------------------------------------------------------------------------
\* The parent waits in a write to the full stdin pipe; the child waits in a
\* write to the full stdout pipe.
ParentBlocked ==
    /\ child # None
    /\ child[1].pc = "write_all"
    /\ child[1].running
    /\ child[1].sent < Len(deliver_data(email[1]))
    /\ Len(child[1].stdin) = PipeCapacity
ChildBlocked ==
    /\ child # None
    /\ child[1].running
    /\ child[1].buf # <<>>
    /\ Len(child[1].stdout) = PipeCapacity
\* The parent reads nothing of the child's output before write_all returned.
WritesBeforeReading ==
    child # None =>
       /\ child[1].pc # "write_all" => child[1].sent = Len(deliver_data(email[1]))
       /\ child[1].pc # "read_to_end" => child[1].got = <<>>

\* C35: a call of process whose child is cat returns, whatever the size of
\* the email: the parent writes all of the raw email before it reads, and
\* the parent is never blocked writing the stdin pipe while the child is
\* blocked writing the stdout pipe.
C35_ProcessReturns ==
    /\ [](WritesBeforeReading)
    /\ [](~(ParentBlocked /\ ChildBlocked))
    /\ ((child # None /\ child[1].cmd = "cat") ~> (child = None))

\* Both pipes are full and the parent has bytes left to write: neither the
\* parent nor cat can take a step.
C35_BothBlocked ==
    /\ ParentBlocked
    /\ ChildBlocked
    /\ child[1].cmd = "cat"
    /\ ~ENABLED (ParentNext \/ ChildNext)



\* ------------------------------------------------------------------------
\* The retry loops of the delivery come to an end.
\* ------------------------------------------------------------------------
\* The system calls of the running call of a thread after a step, those of
\* the whole call when the step returns.
LogAfter(t) ==
    IF threads'[t].pc = "idle" THEN threads'[t].ret[1].log ELSE threads'[t].log
\* The step of a thread inside the call is a system call that ends so.
Event(t, evs) ==
    /\ threads[t].pc # "idle"
    /\ threads'[t] # threads[t]
    /\ Len(LogAfter(t)) = Len(threads[t].log) + 1
    /\ LogAfter(t)[Len(LogAfter(t))] \in evs
ReturnsErr(t) == threads'[t].pc = "idle" /\ ~threads'[t].ret[1].ok

\* An error other than AlreadyExists ends the loop: Maildir::deliver returns
\* it, after remove_file when it is the error of hard_link, and
\* deliver_with_hard_link returns it to deliver_to_maildir_path, which goes
\* on to Maildir::deliver.
C36_ErrorEnds(t) ==
    /\ Event(t, {"create_err", "write_all_err", "remove_err", "sync_new_err", "sync_tmp_err"})
          => ReturnsErr(t)
    /\ Event(t, {"link_err"}) => (threads'[t].pc = "dl_remove" /\ threads'[t].link = "err")
    /\ (threads[t].pc = "dl_remove" /\ threads[t].link = "err" /\ threads'[t] # threads[t])
          => ReturnsErr(t)
    /\ Event(t, HardLinkErrors) => (InHardLink(t) /\ threads'[t].pc = "dl_gen")

\* C36: every call returns; it returns Ok when its system calls failed with
\* AlreadyExists alone; an error other than AlreadyExists ends the loop of
\* Maildir::deliver or of deliver_with_hard_link with that error.
C36_Terminates ==
    /\ \A t \in Threads : (threads[t].pc # "idle") ~> (threads[t].pc = "idle")
    /\ [](\A t \in ReturnedThreads :
             ~Has(threads[t].ret[1].log, ErrorEvents) => threads[t].ret[1].ok)
    /\ [][\A t \in Threads : C36_ErrorEnds(t)]_vars

\* With a clock that did not go back, a call returned Ok from
\* deliver_with_hard_link after a name that was taken, another from
\* Maildir::deliver.
C36_RetriedAndReturned ==
    /\ NonDecreasing(issued)
    /\ \E t \in ReturnedThreads :
          /\ threads[t].ret[1].ok
          /\ ByHardLink(threads[t].ret[1])
          /\ Has(threads[t].ret[1].log, {"hl_link_exists"})
    /\ \E t \in ReturnedThreads :
          /\ threads[t].ret[1].ok
          /\ ~ByHardLink(threads[t].ret[1])



\* ------------------------------------------------------------------------
\* The names of one generator when the clock steps back.
\* ------------------------------------------------------------------------
\* Between the i-th and the j-th name the count was reset: a second larger
\* than every second sampled before it was sampled.
ResetBetween(s, i, j) == \E k \in i + 1..j : MaxSeen(s, k) < s[k].unix_time
\* The clock stepped back at some call.
SteppedBack(s) == \E k \in 1..Len(s) - 1 : s[k + 1].unix_time < s[k].unix_time

\* C37 as stated: the names of one generator are pairwise distinct for
\* every sequence of sampled seconds.
C37_DistinctForEverySequence == Distinct(issued)

\* C37: the names of one generator are pairwise distinct when the sampled
\* seconds never decrease, and two names are distinct for any sampled
\* seconds when no second larger than all seconds before it was sampled
\* between the two calls.
C37_DistinctWithoutReset ==
    /\ NonDecreasing(issued) => Distinct(issued)
    /\ \A i, j \in 1..Len(issued) :
          (i < j /\ ~ResetBetween(issued, i, j)) => issued[i].name # issued[j].name

\* The seconds 2, 2, 1, 1, 2: the clock stepped back and showed again the
\* second of the first names; the five names are distinct.
C37_SteppedBackAndDistinct ==
    /\ Len(issued) = 5
    /\ [k \in 1..5 |-> issued[k].unix_time] = <<2, 2, 1, 1, 2>>
    /\ SteppedBack(issued)
    /\ Distinct(issued)
    /\ issued[5].name = EmailFilename(2, 4)



\* ------------------------------------------------------------------------
\* Concurrent deliveries of an Email that may have been delivered before.
\* ------------------------------------------------------------------------
\* The system calls of a first delivery that meets no error.
FirstDeliveryLog == <<"create_ok", "write_all_ok", "link_ok", "remove_ok", "sync_new_ok",
                      "sync_tmp_ok", "record">>

\* deliver_to_maildir(m) called before any thread is started, on an Email
\* not delivered yet and with every system call succeeding, from the call
\* to its return: the file is in new/ of m, its path is recorded.
DeliverAloneAt(m, r, unix_time) ==
    /\ clock' = unix_time
    /\ gen' = r.gen
    /\ issued' = Append(issued, [t |-> "t1", unix_time |-> unix_time, name |-> r.name])
    /\ inodes' = Append(inodes, [content |-> deliver_data(email[1]), by |-> "email",
                                 o_sync |-> TRUE])
    /\ fs' = [fs EXCEPT ![m].dirs = SubDirs,
                        ![m].new = @ \cup {[name |-> r.name, ino |-> Len(inodes) + 1]}]
    /\ email' = Some([email[1] EXCEPT !.deliver_path = Some([m |-> m, name |-> r.name])])
    /\ threads' = [threads EXCEPT !["t1"] =
                      [ThreadIdle EXCEPT !.ret =
                          Some([ok |-> TRUE, m |-> m, name |-> r.name,
                                durability |-> email[1].delivery_durability,
                                src |-> None, made |-> {Len(inodes) + 1},
                                log |-> FirstDeliveryLog])]]

DeliverAlone(m) ==
    /\ phase = "constructed"
    /\ \A t \in Threads : threads[t] = ThreadIdle
    /\ \A d \in Maildirs : calls[d] = 0
    /\ InOrder("t1", m)
    /\ \E unix_time \in 1..MaxClock :
          DeliverAloneAt(m, EmailFilenameGeneratorNext(gen, unix_time), unix_time)
    /\ calls' = [calls EXCEPT ![m] = @ + 1]
    /\ UNCHANGED <<mutex, lock, output, filtered, child, budget>>
    /\ UNCHANGED <<nvars, decode>>

\* The steps of the threads and of the other programs.
ConcurrentNext ==
    \/ \E m \in Maildirs : DeliverAlone(m)
    \/ \E t \in Threads, m \in Maildirs : DeliverToMaildir(t, m)
    \/ \E t \in Threads, m \in Maildirs : OpenOrCreateFail(t, m)
    \/ \E t \in Threads : ReadDeliverPath(t)
    \/ \E t \in Threads : GenLock(t)
    \/ \E t \in Threads : GenNext(t)
    \/ \E t \in Threads : GenFormat(t)
    \/ \E t \in Threads : HlLink(t)
    \/ \E t \in Threads : HlLinkFail(t)
    \/ \E t \in Threads : HlSync(t)
    \/ \E t \in Threads : HlSyncFail(t)
    \/ \E t \in Threads : DlCreate(t)
    \/ \E t \in Threads : DlCreateFail(t)
    \/ \E t \in Threads : DlWrite(t)
    \/ \E t \in Threads : DlWriteFail(t)
    \/ \E t \in Threads : DlLink(t)
    \/ \E t \in Threads : DlLinkFail(t)
    \/ \E t \in Threads : DlRemove(t)
    \/ \E t \in Threads : DlRemoveFail(t)
    \/ \E t \in Threads : DlSyncNew(t)
    \/ \E t \in Threads : DlSyncTmp(t)
    \/ \E t \in Threads : DlSyncFail(t)
    \/ \E t \in Threads : RecordDeliverPath(t)

ConcurrentInit ==
    /\ input \in DeliverInputs
    /\ StartState
    /\ decode = None

SpecConcurrent == ConcurrentInit /\ [][NormalizeNext \/ ConcurrentNext]_vars
SpecConcurrentFair == SpecConcurrent /\ \A t \in Threads : WF_vars(ThreadNext(t))



\* Where a thread of deliver_to_maildir_path waits for a lock.
WaitsForMutex(t) == threads[t].pc \in {"hl_gen", "dl_gen"} /\ mutex # None
WaitsForWrite(t) == threads[t].pc = "dl_record" /\ lock # {}
RequestsPathLock(t) == threads[t].pc \in {"read_path", "dl_record"}
InCall(t) == threads[t].pc # "idle"
\* A call whose system calls all succeeded added one complete copy.
AddedOneCopy(r) ==
    /\ r.ok
    /\ Count(r.log, LinkedEvents) = 1
    /\ NewFile(r.m, r.name) # None
    /\ NewFile(r.m, r.name)[1].content = raw_data(email[1])
C38_LockOrder ==
    /\ \A t \in Threads : RequestsPathLock(t) => (t \notin lock /\ mutex # Some(t))
    /\ \A t \in Threads : mutex = Some(t) => threads[t].pc \in {"gen_next", "gen_format"}
    /\ \A t \in Threads : WaitsForMutex(t) => mutex # Some(t)
C38_SomeThreadSteps ==
    (\E t \in Threads : InCall(t)) => (\E t \in Threads : InCall(t) /\ ENABLED ThreadNext(t))
C38_AllSucceed ==
    \A t \in ReturnedThreads :
       ~Has(threads[t].ret[1].log, ErrorEvents) => AddedOneCopy(threads[t].ret[1])

\* C38: concurrent calls of deliver_to_maildir on one Email never deadlock.
\* A thread that asks for the read or the write lock of the recorded path
\* holds neither the read guard nor the generator's mutex, the mutex is
\* held only inside next(), in every state with a thread inside a call
\* some such thread can take a step, every call returns, and a call none of
\* whose system calls failed returns Ok having made one link into new/ of
\* its maildir to a file with the raw bytes.
C38_NoDeadlock ==
    /\ [](C38_LockOrder)
    /\ [](C38_SomeThreadSteps)
    /\ [](C38_AllSucceed)
    /\ \A t \in Threads : InCall(t) ~> ~InCall(t)

\* A thread has delivered by itself after its hard link failed and waits
\* for the write lock while the other thread holds a read guard.
C38_WriterWaitsForReader ==
    \E t, u \in Threads :
       /\ t # u
       /\ WaitsForWrite(t)
       /\ u \in lock
       /\ Has(threads[t].log, {"hl_link_err", "hl_sync_new_err"})



\* ------------------------------------------------------------------------
\* Normalization of an input with nothing to unfold, decode or convert.
\* ------------------------------------------------------------------------
\* Every byte is ASCII and no line starts with a space or a tab.
AsciiUnfolded(s) ==
    /\ \A i \in 1..Len(s) : s[i] < 128
    /\ \A i \in 1..Len(PhysicalLines(s)) : ~IsContinuation(PhysicalLines(s)[i])
\* No header field returned so far has "?=" or sets the transfer encoding of
\* its part to base64 or quoted-printable.
NothingToDecode ==
    \A k \in 1..Len(elements) :
       elements[k].el.kind = "HeaderField" =>
          /\ ~maybe_contains_encoded_word(elements[k].el.data)
          /\ active_encoding(elements[k].after) \notin {Some(ENC_BASE64), Some(ENC_QP)}
\* The bytes of the elements returned so far, in the order of the calls.
RECURSIVE ElementBytes(_, _)
ElementBytes(es, k) == IF k > Len(es) THEN <<>> ELSE es[k].el.data \o ElementBytes(es, k + 1)
\* from_vec has returned or panicked.
Ended == phase # "normalizing"

\* C39: for an ASCII input with no folded header line, no "?=" in a header
\* and no base64 or quoted-printable part, the bytes of the elements in the
\* order of emission are the input read so far, from_vec returns an Email
\* and its data() is its raw_data(): the whole input, every line once and in
\* order.
C39_NothingLostOrReordered ==
    (AsciiUnfolded(input) /\ NothingToDecode) =>
       /\ ElementBytes(elements, 1) = SubSeq(input, 1, parser.last)
       /\ normalized = ElementBytes(elements, 1)
       /\ Ended => /\ email # None
                   /\ ElementBytes(elements, 1) = input
                   /\ data(email[1]) = raw_data(email[1])

\* The closing boundary line before the opening one: the input is ASCII with
\* nothing to unfold or decode, next() panics at the last line, the elements
\* stop one line short of the input and there is no Email.
C39_PanicBeforeLastLine ==
    /\ input = IN_BEGIN_AFTER_END
    /\ AsciiUnfolded(input) /\ NothingToDecode
    /\ phase = "panicked"
    /\ email = None
    /\ ElementBytes(elements, 1) \o L_OPEN_A = input



\* ------------------------------------------------------------------------
\* The files one call of deliver_to_maildir adds to new/.
\* ------------------------------------------------------------------------
\* The links into new/ of its maildir a call made.
LinksMade(r) == Count(r.log, LinkedEvents)

\* C40: a call of deliver_to_maildir that has returned made at most one
\* link into new/ of its maildir, and none when it returned an error.
C40_AtMostOneAndNoneOnError ==
    \A t \in ReturnedThreads :
       /\ LinksMade(threads[t].ret[1]) <= 1
       /\ ~threads[t].ret[1].ok => LinksMade(threads[t].ret[1]) = 0

\* The sync of new/ failed after the hard link was made and Maildir::deliver
\* wrote the message again: the call returned Ok and new/ of its maildir
\* has two entries for it, the link to the recorded file and the new file.
C40_DeliveredTwice ==
    \E t \in ReturnedThreads :
       /\ threads[t].ret[1].ok
       /\ LinksMade(threads[t].ret[1]) = 2
       /\ Has(threads[t].ret[1].log, {"hl_sync_new_err"})
       /\ \E e1, e2 \in fs[threads[t].ret[1].m].new :
             /\ e1.name # e2.name
             /\ e1.ino = InoOf(fs[threads[t].ret[1].src[1].m].new, threads[t].ret[1].src[1].name)
             /\ e2.ino \in threads[t].ret[1].made
             /\ e2.name = threads[t].ret[1].name
             /\ inodes[e1.ino].content = inodes[e2.ino].content

=============================================================================
